---- MODULE Spec2Model ----
(***************************************************************************)
(* Verification model of document-outline-gen.                             *)
(*                                                                         *)
(*   SpecHierarchy  the hierarchy assembler and the depth filter           *)
(*                  (OutlineGenerator.ts, MarkdownGenerator.ts,            *)
(*                  markdown.pegjs)                                        *)
(*   SpecRegistry   the generator registry of DocumentOutlineGenerator     *)
(*                  (index.ts)                                             *)
(*   SpecCsv        the tabular inference of CsvGenerator                  *)
(*                  (CsvGenerator.ts)                                      *)
(*   SpecColumn     the type inference and the statistics of one column    *)
(*                  (CsvGenerator.ts, csv.pegjs)                           *)
(*   SpecCsvOutline CsvGenerator.generate from the text to the outline     *)
(*                  (CsvGenerator.ts)                                      *)
(*   SpecSlug       generateId and createAnchor (OutlineGenerator.ts)      *)
(*   SpecTree       generate of JsonGenerator, XmlGenerator, YamlGenerator *)
(*   SpecParseLine  parseCsvLine of CsvGenerator (CsvGenerator.ts)         *)
(*   SpecMarkdown   generate of MarkdownGenerator (MarkdownGenerator.ts)   *)
(*   SpecPeggy      generate calls on one FromPeggyGrammarGenerator        *)
(*                                                                         *)
(* Strings are sequences of one-character strings, so that toLowerCase,    *)
(* trim, concatenation and the regular-expression tests are computed.      *)
(* An optional value (a field or argument that may be undefined) is        *)
(* Undefined or Some(v).                                                   *)
(***************************************************************************)
EXTENDS Integers, Sequences, FiniteSets, TLC

VARIABLES
    \* ---- hierarchy assembler / depth filter ----
    producer,     \* who made the flat node list: "createNode", "grammar", "literal"
    nodes,        \* the flat, depth-annotated node list handed to the assembler
    hPc,          \* "flat", "built", "grammarBuilt", "filtered", "generated"
    maxDepth,     \* the maxDepth argument of the last filterByDepth / generate
    forestIn,     \* the forest handed to the last filterByDepth
    forest        \* the forest returned by the last operation

VARIABLES
    \* ---- DocumentOutlineGenerator (index.ts) ----
    generators,          \* the Map extension -> generator, in insertion order
    usePeggyGenerators,  \* the field of that name
    invoked,             \* the generate calls made by the last operation
    outcome,             \* the last operation, its arguments and what it gave back
    lastRegistered       \* history: per extension, lower-cased, the generator
                         \* most recently registered for it (Undefined: none)

VARIABLES
    \* ---- CsvGenerator.analyzeCsv ----
    csvContent,    \* the content, as the lines content.split('\n') gives
    csvPc,         \* how far analyzeCsv has come
    csvLines,      \* lines: trimmed, the empty ones dropped
    csvDelimiter,  \* delimiter
    csvRows,       \* rows
    csvHasHeader,  \* hasHeader
    csvColumnCount,  \* columnCount
    csvColumns,    \* columns
    csvOutcome     \* how generate settled: its promise resolved or rejected

VARIABLES
    \* ---- column type inference and statistics ----
    colValues,   \* the non-empty values of one column
    colNumbers,  \* the list handed to calculateMedian
    colPc,       \* "values", "numbers", "inferred", "analyzed", "median"
    colType,     \* the type returned for the column
    colStatistics,  \* the statistics analyzeColumnValues returned
    colMedian    \* what calculateMedian returned

VARIABLES
    \* ---- generateId and createAnchor (OutlineGenerator.ts) ----
    slugTitle,   \* the title argument
    slugType,    \* the type argument of generateId
    slugLine,    \* the line argument of generateId, Undefined when left out
    slugPc,      \* "arguments", "id", "anchor"
    slugResult   \* the string returned

VARIABLES
    \* ---- JsonGenerator, XmlGenerator, YamlGenerator: generate ----
    treeGenerator,  \* the class whose generate is called
    treeMaxDepth,   \* options.maxDepth of the call
    treeParsed,     \* what the parser gave for the content: a value, or a throw
    treePc,         \* "called", "settled"
    treeOutcome     \* how the promise of generate settled

VARIABLES
    \* ---- CsvGenerator.parseCsvLine ----
    lineText,       \* the line argument
    lineDelimiter,  \* the delimiter argument
    linePc,         \* "arguments", "parsed"
    lineFields      \* the array returned

VARIABLES
    \* ---- MarkdownGenerator.generate ----
    mdLines,        \* the lines of the content gray-matter leaves after the front matter
    mdFrontmatter,  \* the data gray-matter parsed from the front matter, {} when none
    mdOptions,      \* the options of the call
    mdPc,           \* "called", "generated"
    mdOutline       \* the forest generate resolves with

VARIABLES
    \* ---- FromPeggyGrammarGenerator: one instance ----
    pgParser,     \* this.parser: null, or the parser object (named by its number)
    pgCompiled,   \* how many times peggy.generate has returned a parser
    pgCalls       \* the generate calls made on the instance

hierVars == <<producer, nodes, hPc, maxDepth, forestIn, forest>>
csvResultVars == <<csvColumnCount, csvColumns, csvOutcome>>
csvVars == <<csvContent, csvPc, csvLines, csvDelimiter, csvRows, csvHasHeader, csvResultVars>>
regVars == <<generators, usePeggyGenerators, invoked, outcome, lastRegistered>>

colVars == <<colValues, colNumbers, colPc, colType, colStatistics, colMedian>>
slugVars == <<slugTitle, slugType, slugLine, slugPc, slugResult>>
treeVars == <<treeGenerator, treeMaxDepth, treeParsed, treePc, treeOutcome>>
lineVars == <<lineText, lineDelimiter, linePc, lineFields>>
mdVars == <<mdLines, mdFrontmatter, mdOptions, mdPc, mdOutline>>
pgVars == <<pgParser, pgCompiled, pgCalls>>

vars == <<hierVars, regVars, csvVars, colVars, slugVars, treeVars, lineVars, mdVars, pgVars>>

\* what the operations of one component leave alone
notHierVars == <<regVars, csvVars, colVars, slugVars, treeVars, lineVars, mdVars, pgVars>>
notRegVars == <<hierVars, csvVars, colVars, slugVars, treeVars, lineVars, mdVars, pgVars>>
notCsvVars == <<hierVars, regVars, colVars, slugVars, treeVars, lineVars, mdVars, pgVars>>
notColVars == <<hierVars, regVars, csvVars, slugVars, treeVars, lineVars, mdVars, pgVars>>
notSlugVars == <<hierVars, regVars, csvVars, colVars, treeVars, lineVars, mdVars, pgVars>>
notTreeVars == <<hierVars, regVars, csvVars, colVars, slugVars, lineVars, mdVars, pgVars>>
notLineVars == <<hierVars, regVars, csvVars, colVars, slugVars, treeVars, mdVars, pgVars>>
notMdVars == <<hierVars, regVars, csvVars, colVars, slugVars, treeVars, lineVars, pgVars>>
notPgVars == <<hierVars, regVars, csvVars, colVars, slugVars, treeVars, lineVars, mdVars>>

----------------------------------------------------------------------------
(* Bounds *)

MaxNodes == 4       \* longest flat node list
MaxNodeDepth == 4   \* deepest node depth drawn
MaxDepthOpt == 3    \* largest maxDepth option drawn
MaxLines == 2       \* longest content drawn line by line
MaxRepeat == 10     \* most repetitions of the first line in a long content
MaxValues == 3      \* longest column drawn value by value
LongRun == 80       \* length of the leading run of a column of over 100 values
MaxNumbers == 4     \* longest list of numbers handed to calculateMedian
MaxTableLines == 3  \* most lines of a table analysed to its outline
MaxTitle == 3       \* longest title handed to generateId and createAnchor
MaxLineLength == 5  \* longest line handed to parseCsvLine
MaxBodyLines == 3   \* most lines of a Markdown document after its front matter
MaxCalls == 3       \* generate calls made on one FromPeggyGrammarGenerator

----------------------------------------------------------------------------
(* Optional values and sequence helpers *)

Undefined == <<>>
Some(v) == <<v>>

Last(s) == s[Len(s)]
Front(s) == SubSeq(s, 1, Len(s) - 1)

\* <<F(s[k]) : k = from..Len(s)>>
MapIdx(F(_), s, from) == [k \in 1..(Len(s) - from + 1) |-> F(s[from + k - 1])]

Map(F(_), s) == MapIdx(F, s, 1)

RECURSIVE Concat(_)
\* concatenation of a sequence of sequences
Concat(ss) == IF ss = <<>> THEN <<>> ELSE Head(ss) \o Concat(Tail(ss))

Range(s) == {s[k] : k \in 1..Len(s)}

SeqsUpTo(S, n) == {<<>>} \cup UNION {[1..m -> S] : m \in 1..n}

----------------------------------------------------------------------------
(* Strings: sequences of one-character strings *)

UpperCaseLetters ==
    <<"A", "B", "C", "D", "E", "F", "G", "H", "I", "J", "K", "L", "M",
      "N", "O", "P", "Q", "R", "S", "T", "U", "V", "W", "X", "Y", "Z">>
LowerCaseLetters ==
    <<"a", "b", "c", "d", "e", "f", "g", "h", "i", "j", "k", "l", "m",
      "n", "o", "p", "q", "r", "s", "t", "u", "v", "w", "x", "y", "z">>
Letters == Range(UpperCaseLetters) \cup Range(LowerCaseLetters)
Digits == {"0", "1", "2", "3", "4", "5", "6", "7", "8", "9"}

ToLowerChar(c) ==
    IF c \in Range(UpperCaseLetters)
    THEN LowerCaseLetters[CHOOSE i \in 1..26 : UpperCaseLetters[i] = c]
    ELSE c

\* String.prototype.toLowerCase
toLowerCase(str) == Map(ToLowerChar, str)

Whitespace == {" ", "\t", "\r"}

RECURSIVE TrimStart(_)
TrimStart(str) ==
    IF str # <<>> /\ Head(str) \in Whitespace THEN TrimStart(Tail(str)) ELSE str

RECURSIVE TrimEnd(_)
TrimEnd(str) ==
    IF str # <<>> /\ Last(str) \in Whitespace THEN TrimEnd(Front(str)) ELSE str

\* String.prototype.trim
trim(str) == TrimEnd(TrimStart(str))

\* String.prototype.includes
Includes(str, part) ==
    \E i \in 0..(Len(str) - Len(part)) : SubSeq(str, i + 1, i + Len(part)) = part

----------------------------------------------------------------------------
(* OutlineGenerator.ts *)

\* createNode: the node object literal; title is the node's position in the
\* input, which identifies it.
createNode(title, type, depth) ==
    [title |-> title, type |-> type, depth |-> depth, children |-> Some(<<>>)]

\* a node written as an object literal without a children field
\* (OutlineNode.children is optional)
LiteralNode(title, type, depth) ==
    [title |-> title, type |-> type, depth |-> depth, children |-> Undefined]

\* JavaScript truthiness of an optional number
IsFalsy(opt) == opt = Undefined \/ opt[1] = 0

\* buildHierarchy, the loop condition of line 76 without the length test
ShouldPop_Strict(top, node) == top.depth > node.depth
ShouldPop(top, node) == top.depth >= node.depth

RECURSIVE PopWhile(_, _, _)
\* the while loop of lines 76-78; the stack holds positions of the input list
PopWhile(stack, input, node) ==
    IF Len(stack) > 0 /\ ShouldPop(input[Last(stack)], node)
    THEN PopWhile(Front(stack), input, node)
    ELSE stack

\* parent.children.push(node), creating the list when the field is missing
PushChild(children, parent, k) ==
    LET cur == IF children[parent] = Undefined THEN <<>> ELSE children[parent][1]
    IN  [children EXCEPT ![parent] = Some(Append(cur, k))]

\* one iteration of the for loop of lines 74-93.  st.children maps every
\* input position to the children list of that node object (positions).
BuildStep_NoElse(st, input, k) ==
    LET stack == PopWhile(st.stack, input, input[k])
    IN  [result   |-> Append(st.result, k),
         children |-> IF Len(stack) = 0 THEN st.children
                      ELSE PushChild(st.children, Last(stack), k),
         stack    |-> Append(stack, k)]
BuildStep(st, input, k) ==
    LET stack == PopWhile(st.stack, input, input[k])
    IN  IF Len(stack) = 0
        THEN [result   |-> Append(st.result, k),
              children |-> st.children,
              stack    |-> Append(stack, k)]
        ELSE [result   |-> st.result,
              children |-> PushChild(st.children, Last(stack), k),
              stack    |-> Append(stack, k)]

RECURSIVE BuildLoop(_, _, _, _)
BuildLoop(Step(_, _, _), st, input, k) ==
    IF k > Len(input) THEN st
    ELSE BuildLoop(Step, Step(st, input, k), input, k + 1)

RECURSIVE Materialize(_, _, _)
\* the node object at position k as a value, its children followed
Materialize(input, children, k) ==
    LET Sub(j) == Materialize(input, children, j)
    IN  [input[k] EXCEPT !.children =
            IF children[k] = Undefined THEN Undefined
            ELSE Some(Map(Sub, children[k][1]))]

\* The flat lists handed to buildHierarchy carry no children yet: the
\* children field of a node is [] (createNode, the grammar's literals) or
\* missing.
InitialHeap(input) ==
    [result   |-> <<>>,
     stack    |-> <<>>,
     children |-> [k \in 1..Len(input) |->
                      IF input[k].children = Undefined THEN Undefined ELSE Some(<<>>)]]

buildHierarchy(input) ==
    LET st == BuildLoop(BuildStep, InitialHeap(input), input, 1)
        Top(j) == Materialize(input, st.children, j)
    IN  Map(Top, st.result)

\* node.depth <= maxDepth; a comparison with undefined is false
DepthWithin_OffByOne(node, maxD) == maxD # Undefined /\ node.depth <= maxD[1] + 1
DepthWithin(node, maxD) == maxD # Undefined /\ node.depth <= maxD[1]

RECURSIVE filterByDepth(_, _)
filterByDepth_TopLevelOnly(ns, maxD) ==
    IF IsFalsy(maxD) THEN ns
    ELSE LET Keep(n) == DepthWithin(n, maxD)
         IN  SelectSeq(ns, Keep)
filterByDepth_NoEarlyReturn(ns, maxD) ==
    LET Keep(n) == DepthWithin(n, maxD)
        Copy(n) == [n EXCEPT !.children =
                       IF n.children # Undefined
                       THEN Some(filterByDepth(n.children[1], maxD))
                       ELSE Undefined]
    IN  Map(Copy, SelectSeq(ns, Keep))
filterByDepth(ns, maxD) ==
    IF IsFalsy(maxD) THEN ns
    ELSE LET Keep(n) == DepthWithin(n, maxD)
             Copy(n) == [n EXCEPT !.children =
                            IF n.children # Undefined
                            THEN Some(filterByDepth(n.children[1], maxD))
                            ELSE Undefined]
         IN  Map(Copy, SelectSeq(ns, Keep))

\* String(n) of a natural number
RECURSIVE NumberToString(_)
NumberToString(n) ==
    LET digit == <<"0", "1", "2", "3", "4", "5", "6", "7", "8", "9">>[(n % 10) + 1]
    IN  IF n < 10 THEN <<digit>> ELSE Append(NumberToString(n \div 10), digit)

\* OutlineGenerator.generateId; a line of 0 is falsy and gets no suffix
generateId(title, type, line) ==
    LET Clean(c) == IF c \in Range(LowerCaseLetters) \cup Digits THEN c ELSE "-"
        suffix == IF IsFalsy(line) THEN <<>> ELSE <<"-">> \o NumberToString(line[1])
    IN  type \o <<"-">> \o Map(Clean, toLowerCase(title)) \o suffix

\* the character classes \w and \s of the regular expressions
WordChars == Letters \cup Digits \cup {"_"}
SpaceChars == {" ", "\t", "\n", "\r", "\f"}

\* replace(/[^\w\s-]/g, '')
StripOtherChars(str) ==
    LET Kept(c) == c \in WordChars \cup SpaceChars \cup {"-"}
    IN  SelectSeq(str, Kept)

RECURSIVE ReplaceSpaceRuns(_, _)
\* replace(/\s+/g, '-') from position i on
ReplaceSpaceRuns(str, i) ==
    IF i > Len(str) THEN <<>>
    ELSE IF str[i] \notin SpaceChars THEN <<str[i]>> \o ReplaceSpaceRuns(str, i + 1)
    ELSE IF i > 1 /\ str[i - 1] \in SpaceChars THEN ReplaceSpaceRuns(str, i + 1)
    ELSE <<"-">> \o ReplaceSpaceRuns(str, i + 1)

RECURSIVE CollapseHyphens(_, _)
\* replace(/-+/g, '-') from position i on
CollapseHyphens(str, i) ==
    IF i > Len(str) THEN <<>>
    ELSE IF str[i] = "-" /\ i > 1 /\ str[i - 1] = "-" THEN CollapseHyphens(str, i + 1)
    ELSE <<str[i]>> \o CollapseHyphens(str, i + 1)

\* replace(/^-|-$/g, ''): one hyphen at the start, and one at the end of
\* what is left
TrimHyphens(str) ==
    LET rest == IF str # <<>> /\ Head(str) = "-" THEN Tail(str) ELSE str
    IN  IF rest # <<>> /\ Last(rest) = "-" THEN Front(rest) ELSE rest

\* OutlineGenerator.createAnchor
createAnchor_NoCollapse(title) ==
    TrimHyphens(ReplaceSpaceRuns(StripOtherChars(toLowerCase(title)), 1))
createAnchor(title) ==
    TrimHyphens(CollapseHyphens(ReplaceSpaceRuns(StripOtherChars(toLowerCase(title)), 1), 1))

----------------------------------------------------------------------------
(* markdown.pegjs: the header-aware buildHierarchy *)

GrammarBuildStep_AllPushed(st, input, k) ==
    BuildStep(st, input, k)
GrammarBuildStep(st, input, k) ==
    IF input[k].type = "heading"
    THEN BuildStep(st, input, k)
    ELSE IF Len(st.stack) > 0
         THEN [st EXCEPT !.children = PushChild(st.children, Last(st.stack), k)]
         ELSE [st EXCEPT !.result = Append(st.result, k)]

grammarBuildHierarchy(input) ==
    LET st == BuildLoop(GrammarBuildStep, InitialHeap(input), input, 1)
        Top(j) == Materialize(input, st.children, j)
    IN  Map(Top, st.result)

----------------------------------------------------------------------------
(* MarkdownGenerator.ts *)

\* generate, lines 48-52: the heading nodes are filtered flat, then nested
MarkdownGenerate(headings, maxD) == buildHierarchy(filterByDepth(headings, maxD))

\* the options generate reads
MarkdownOptions(maxD, includeLineNumbers) ==
    [maxDepth |-> maxD, includeLineNumbers |-> includeLineNumbers]

RECURSIVE CountLeading(_, _)
\* how many characters of the set a string starts with
CountLeading(str, set) ==
    IF str # <<>> /\ Head(str) \in set THEN 1 + CountLeading(Tail(str), set) ELSE 0

\* line.match(/^(#{1,6})\s+(.+)$/): the groups, or undefined.  \s+ gives its
\* last character back when nothing else is left for (.+)
HeadingMatch(line) ==
    LET hashes == CountLeading(line, {"#"})
        rest   == SubSeq(line, hashes + 1, Len(line))
        spaces == CountLeading(rest, SpaceChars)
    IN  IF hashes \in 1..6 /\ spaces >= 1 /\ Len(rest) >= 2
        THEN Some([hashes |-> hashes,
                   title  |-> IF spaces = Len(rest) THEN <<Last(rest)>>
                              ELSE SubSeq(rest, spaces + 1, Len(rest))])
        ELSE Undefined

\* lines 24-44: the node made for the heading on line index i
HeadingNode(groups, i, frontmatter, options) ==
    [title    |-> trim(groups.title),
     type     |-> "heading",
     depth    |-> groups.hashes,
     children |-> Some(<<>>),
     line     |-> IF options.includeLineNumbers THEN Some(i + 1) ELSE Undefined,
     column   |-> IF options.includeLineNumbers THEN Some(1) ELSE Undefined,
     metadata |-> [level       |-> groups.hashes,
                   rawTitle    |-> groups.title,
                   frontmatter |-> IF i = 0 /\ Len(frontmatter) > 0
                                   THEN Some(frontmatter) ELSE Undefined],
     id       |-> generateId(trim(groups.title), <<"h", "e", "a", "d", "i", "n", "g">>, Some(i + 1)),
     anchor   |-> createAnchor(trim(groups.title))]

RECURSIVE HeadingNodes(_, _, _, _)
\* the for loop of lines 20-46 from line index i on
HeadingNodes(bodyLines, i, frontmatter, options) ==
    IF i >= Len(bodyLines) THEN <<>>
    ELSE LET groups == HeadingMatch(bodyLines[i + 1])
         IN  (IF groups = Undefined THEN <<>>
              ELSE <<HeadingNode(groups[1], i, frontmatter, options)>>)
             \o HeadingNodes(bodyLines, i + 1, frontmatter, options)

\* MarkdownGenerator.generate on what matter(content) gave: the lines of its
\* content and its data
generateMarkdown(bodyLines, frontmatter, options) ==
    MarkdownGenerate(HeadingNodes(bodyLines, 0, frontmatter, options), options.maxDepth)

----------------------------------------------------------------------------
(* Forest observers *)

ChildrenOf(n) == IF n.children = Undefined THEN <<>> ELSE n.children[1]

RECURSIVE PreOrder(_)
\* the nodes of a forest, parent before children, children left to right
PreOrder(f) ==
    IF f = <<>> THEN <<>>
    ELSE <<Head(f)>> \o PreOrder(ChildrenOf(Head(f))) \o PreOrder(Tail(f))

AllNodes(f) == Range(PreOrder(f))
Titles(f) == LET T(n) == n.title IN Map(T, PreOrder(f))
TopTitles(f) == {f[k].title : k \in 1..Len(f)}

\* <<parent title, child title, parent depth, child depth>> of every edge
Edges(f) ==
    UNION {{<<p.title, c.title, p.depth, c.depth>> : c \in Range(ChildrenOf(p))} :
              p \in AllNodes(f)}

Depths(ns) == LET D(n) == n.depth IN Map(D, ns)

----------------------------------------------------------------------------
(* Numbers: exact fractions [n, d] with d > 0, in lowest terms, stand for  *)
(* the doubles of the program                                              *)

Abs(x) == IF x < 0 THEN -x ELSE x

RECURSIVE Gcd(_, _)
Gcd(a, b) == IF b = 0 THEN a ELSE Gcd(b, a % b)

Frac(n, d) ==
    LET g == Gcd(Abs(n), d)
    IN  IF n = 0 THEN [n |-> 0, d |-> 1] ELSE [n |-> n \div g, d |-> d \div g]

Num(k) == [n |-> k, d |-> 1]
FAdd(a, b) == Frac(a.n * b.d + b.n * a.d, a.d * b.d)
FSub(a, b) == Frac(a.n * b.d - b.n * a.d, a.d * b.d)
FMul(a, b) == Frac(a.n * b.n, a.d * b.d)
\* a / b for b > 0
FDiv(a, b) == Frac(a.n * b.d, a.d * b.n)
FLt(a, b) == a.n * b.d < b.n * a.d
FLe(a, b) == a.n * b.d <= b.n * a.d
FGt(a, b) == FLt(b, a)
FGe(a, b) == FLe(b, a)

RECURSIVE FSum(_)
\* reduce((a, b) => a + b, 0) over fractions; the sum is exact, so it is
\* taken half by half
FSum(fs) ==
    IF fs = <<>> THEN Num(0)
    ELSE IF Len(fs) = 1 THEN fs[1]
    ELSE LET h == Len(fs) \div 2
         IN  FAdd(FSum(SubSeq(fs, 1, h)), FSum(SubSeq(fs, h + 1, Len(fs))))

Min(a, b) == IF a < b THEN a ELSE b

----------------------------------------------------------------------------
(* Number(str) of a string, as far as isNaN sees it *)

RECURSIVE SpanDigits(_, _)
\* the first index from i on that does not hold a decimal digit
SpanDigits(str, i) ==
    IF i <= Len(str) /\ str[i] \in Digits THEN SpanDigits(str, i + 1) ELSE i

\* StrDecimalLiteral without Infinity: sign, digits with an optional
\* fraction or a fraction alone, optional exponent
IsDecimalLiteral(str) ==
    LET n  == Len(str)
        i0 == IF str[1] \in {"+", "-"} THEN 2 ELSE 1
        i1 == SpanDigits(str, i0)
        hasDot == i1 <= n /\ str[i1] = "."
        i2 == IF hasDot THEN SpanDigits(str, i1 + 1) ELSE i1
        mantissa == (i1 - i0) + (IF hasDot THEN i2 - (i1 + 1) ELSE 0)
        hasExp == i2 <= n /\ str[i2] \in {"e", "E"}
        j1 == IF i2 + 1 <= n /\ str[i2 + 1] \in {"+", "-"} THEN i2 + 2 ELSE i2 + 1
        j2 == SpanDigits(str, j1)
    IN  /\ mantissa >= 1
        /\ IF hasExp THEN j2 > j1 /\ j2 = n + 1 ELSE i2 = n + 1

IsInfinityLiteral(str) ==
    str \in {<<"I", "n", "f", "i", "n", "i", "t", "y">>, <<"+">> \o <<"I", "n", "f", "i", "n", "i", "t", "y">>, <<"-">> \o <<"I", "n", "f", "i", "n", "i", "t", "y">>}

\* 0x.., 0b.., 0o.. literals
IsRadixLiteral(str) ==
    /\ Len(str) >= 3
    /\ str[1] = "0"
    /\ LET rest == {str[k] : k \in 3..Len(str)}
       IN  \/ /\ str[2] \in {"x", "X"}
              /\ rest \subseteq Digits \cup {"a", "b", "c", "d", "e", "f",
                                             "A", "B", "C", "D", "E", "F"}
           \/ /\ str[2] \in {"b", "B"}
              /\ rest \subseteq {"0", "1"}
           \/ /\ str[2] \in {"o", "O"}
              /\ rest \subseteq {"0", "1", "2", "3", "4", "5", "6", "7"}

\* isNaN(Number(str)): the empty and the all-blank string convert to 0
NumberIsNaN(str) ==
    LET t == trim(str)
    IN  /\ t # <<>>
        /\ ~IsDecimalLiteral(t)
        /\ ~IsInfinityLiteral(t)
        /\ ~IsRadixLiteral(t)

\* /[a-zA-Z]/.test(str)
HasLetter(str) == \E k \in 1..Len(str) : str[k] \in Letters

----------------------------------------------------------------------------
(* CsvGenerator.ts *)

RECURSIVE ParseFrom(_, _, _, _, _, _)
\* the while loop of parseCsvLine from index i (1-based) on
ParseFrom_NoEscape(line, delimiter, i, result, current, inQuotes) ==
    IF i > Len(line)
    THEN Append(result, trim(current))
    ELSE IF line[i] = "\""
         THEN ParseFrom(line, delimiter, i + 1, result, current, ~inQuotes)
         ELSE IF line[i] = delimiter /\ ~inQuotes
              THEN ParseFrom(line, delimiter, i + 1, Append(result, trim(current)), <<>>, inQuotes)
              ELSE ParseFrom(line, delimiter, i + 1, result, Append(current, line[i]), inQuotes)
ParseFrom(line, delimiter, i, result, current, inQuotes) ==
    IF i > Len(line)
    THEN Append(result, trim(current))
    ELSE IF line[i] = "\""
         THEN IF inQuotes /\ i + 1 <= Len(line) /\ line[i + 1] = "\""
              THEN ParseFrom(line, delimiter, i + 2, result, Append(current, "\""), inQuotes)
              ELSE ParseFrom(line, delimiter, i + 1, result, current, ~inQuotes)
         ELSE IF line[i] = delimiter /\ ~inQuotes
              THEN ParseFrom(line, delimiter, i + 1, Append(result, trim(current)), <<>>, inQuotes)
              ELSE ParseFrom(line, delimiter, i + 1, result, Append(current, line[i]), inQuotes)

parseCsvLine(line, delimiter) == ParseFrom(line, delimiter, 1, <<>>, <<>>, FALSE)

\* content.split('\n').map(line => line.trim()).filter(line => line.length > 0)
SplitTrimmedLines(content) ==
    LET NonEmpty(l) == Len(l) > 0
    IN  SelectSeq(Map(trim, content), NonEmpty)

Delimiters == <<",", ";", "\t", "|", ":">>
DelimiterSampleSize == 10

\* lines.slice(0, 10)
DelimiterSample(lines) == SubSeq(lines, 1, Min(DelimiterSampleSize, Len(lines)))

\* the score of one candidate, lines 100-112
DelimiterScore(lines, delimiter) ==
    LET Count(line) == Num(Len(parseCsvLine(line, delimiter)))
        rowLengths == Map(Count, DelimiterSample(lines))
        size == Num(Len(rowLengths))
        avgLength == FDiv(FSum(rowLengths), size)
        Square(len) == FMul(FSub(len, avgLength), FSub(len, avgLength))
        variance == FDiv(FSum(Map(Square, rowLengths)), size)
        consistency == IF FGt(avgLength, Num(1))
                       THEN FDiv(Num(1), FAdd(Num(1), variance))
                       ELSE Num(0)
        reasonableCount == IF FGe(avgLength, Num(2)) /\ FLe(avgLength, Num(50))
                           THEN Num(1)
                           ELSE Frac(1, 2)
    IN  FMul(FMul(consistency, reasonableCount), avgLength)

\* the test of line 114
BetterScore_OrEqual(score, maxScore) == FGe(score, maxScore)
BetterScore(score, maxScore) == FGt(score, maxScore)

RECURSIVE DelimiterLoop(_, _, _, _)
\* the for loop of lines 99-118 from candidate k on
DelimiterLoop(lines, k, bestDelimiter, maxScore) ==
    IF k > Len(Delimiters) THEN bestDelimiter
    ELSE LET score == DelimiterScore(lines, Delimiters[k])
         IN  IF BetterScore(score, maxScore)
             THEN DelimiterLoop(lines, k + 1, Delimiters[k], score)
             ELSE DelimiterLoop(lines, k + 1, bestDelimiter, maxScore)

detectDelimiter(lines) == DelimiterLoop(lines, 1, ",", Num(0))

\* what one column adds to headerScore, lines 171-192
HeaderCellScore(first, second) ==
      (IF NumberIsNaN(first) /\ ~NumberIsNaN(second) THEN 2 ELSE 0)
    + (IF Len(first) > Len(second) /\ Len(first) > 3 THEN 1 ELSE 0)
    + (IF HasLetter(first) /\ ~HasLetter(second) THEN 1 ELSE 0)
    - (IF Len(first) = 0 THEN 2 ELSE 0)

RECURSIVE HeaderLoop(_, _, _, _)
\* the for loop of lines 170-193 from column i (1-based) on
HeaderLoop(firstRow, secondRow, i, headerScore) ==
    IF i > Len(firstRow) THEN headerScore
    ELSE HeaderLoop(firstRow, secondRow, i + 1,
                    headerScore + HeaderCellScore(firstRow[i], secondRow[i]))

detectHeader_NonStrict(rows) ==
    IF Len(rows) < 2 THEN FALSE
    ELSE IF Len(rows[1]) # Len(rows[2]) THEN FALSE
    ELSE HeaderLoop(rows[1], rows[2], 1, 0) >= 0
detectHeader(rows) ==
    IF Len(rows) < 2 THEN FALSE
    ELSE IF Len(rows[1]) # Len(rows[2]) THEN FALSE
    ELSE HeaderLoop(rows[1], rows[2], 1, 0) > 0

----------------------------------------------------------------------------
(* The value tests of the column type inference                            *)

\* the list of line 270 (csv.pegjs line 263)
BooleanWords ==
    {<<"t", "r", "u", "e">>, <<"f", "a", "l", "s", "e">>, <<"y", "e", "s">>,
     <<"n", "o">>, <<"1">>, <<"0">>, <<"y">>, <<"n">>}

\* line 275 (csv.pegjs isNumeric, lines 257-259)
IsNumericValue(value) == ~NumberIsNaN(value) /\ trim(value) # <<>>

\* the value of a run of decimal digits
DigitValue(c) == CHOOSE v \in 0..9 : ToString(v) = c

RECURSIVE DigitsValue(_)
DigitsValue(ds) ==
    IF ds = <<>> THEN 0 ELSE 10 * DigitsValue(Front(ds)) + DigitValue(Last(ds))

\* every digit replaced by "d": the shape the \d patterns look at
Shape(str) == [k \in 1..Len(str) |-> IF str[k] \in Digits THEN "d" ELSE str[k]]

IsMonth(x) == 1 <= x /\ x <= 12
IsDay(x) == 1 <= x /\ x <= 31

\* new Date(str) of Node for a string of digits, '-', '/' and '.': the day
\* composer takes up to three numbers, fills the missing ones with 1 and
\* reads them as year-month-day when the first is no day of a month and as
\* month-day-year otherwise; a '-' that does not follow a number is refused
\* once a number has been read; 275760 is the last year that holds time values
DayComposerWrite(comps, isIso) ==
    LET c == comps \o [k \in 1..(3 - Len(comps)) |-> 1]
        ymd == isIso \/ ~IsDay(c[1])
        year0 == IF ymd THEN c[1] ELSE c[3]
        month == IF ymd THEN c[2] ELSE c[1]
        day == IF ymd THEN c[3] ELSE c[2]
        year == IF isIso THEN year0
                ELSE IF year0 <= 49 THEN year0 + 2000
                ELSE IF year0 <= 99 THEN year0 + 1900 ELSE year0
    IN  Len(comps) >= 1 /\ IsMonth(month) /\ IsDay(day) /\ year <= 275760

RECURSIVE LegacyDateScan(_, _, _)
LegacyDateScan(str, i, comps) ==
    IF i > Len(str) THEN DayComposerWrite(comps, FALSE)
    ELSE IF str[i] \in Digits
    THEN LET j == SpanDigits(str, i)
             afterDot == IF j <= Len(str) /\ str[j] = "." THEN j + 1 ELSE j
             afterDash == IF afterDot <= Len(str) /\ str[afterDot] = "-"
                          THEN afterDot + 1 ELSE afterDot
         IN  IF Len(comps) = 3 THEN FALSE
             ELSE LegacyDateScan(str, afterDash,
                                 Append(comps, DigitsValue(SubSeq(str, i, j - 1))))
    ELSE IF str[i] = "-" /\ comps # <<>> THEN FALSE
    ELSE LegacyDateScan(str, i + 1, comps)

IsoDate(str) ==
    /\ Shape(str) \in {<<"d", "d", "d", "d">>,
                       <<"d", "d", "d", "d", "-", "d", "d">>,
                       <<"d", "d", "d", "d", "-", "d", "d", "-", "d", "d">>}
    /\ Len(str) >= 7 => IsMonth(DigitsValue(SubSeq(str, 6, 7)))
    /\ Len(str) >= 10 => IsDay(DigitsValue(SubSeq(str, 9, 10)))

\* !isNaN(new Date(str).getTime()); a string that holds no digit is no date,
\* and strings that mix digits with other characters than '-', '/', '.'
\* are outside the forms modelled here
DateIsValid(str) ==
    /\ \E k \in 1..Len(str) : str[k] \in Digits
    /\ Range(str) \subseteq Digits \cup {"-", "/", "."}
    /\ (IsoDate(str) \/ LegacyDateScan(str, 1, <<>>))

\* the patterns of lines 321-327
DatePatterns ==
    {<<"d", "d", "d", "d", "-", "d", "d", "-", "d", "d">>,
     <<"d", "d", "/", "d", "d", "/", "d", "d", "d", "d">>,
     <<"d", "d", "-", "d", "d", "-", "d", "d", "d", "d">>,
     <<"d", "d", "d", "d", "/", "d", "d", "/", "d", "d">>,
     <<"d", "d", ".", "d", "d", ".", "d", "d", "d", "d">>}

\* CsvGenerator.isDate
isDate(value) ==
    IF Len(value) < 6 THEN FALSE
    ELSE IF ~DateIsValid(trim(value)) THEN FALSE
    ELSE Shape(trim(value)) \in DatePatterns

\* /^[^\s@]+@[^\s@]+\.[^\s@]+$/.test(str)
MatchesEmail(str) ==
    /\ \A k \in 1..Len(str) : str[k] \notin Whitespace \cup {"\n"}
    /\ \E i \in 2..Len(str) :
          /\ str[i] = "@"
          /\ \A k \in 1..Len(str) : str[k] = "@" => k = i
          /\ \E j \in (i + 2)..(Len(str) - 1) : str[j] = "."

\* CsvGenerator.isEmail
isEmail(value) == MatchesEmail(trim(value))

\* the index of the first character of str, from i on, that is in stops
\* (Len(str) + 1: none)
RECURSIVE IndexOfAny(_, _, _)
IndexOfAny(str, stops, i) ==
    IF i > Len(str) \/ str[i] \in stops THEN i ELSE IndexOfAny(str, stops, i + 1)

\* the index of the first character of str, from i on, that is not in skipped
RECURSIVE SkipAll(_, _, _)
SkipAll(str, skipped, i) ==
    IF i <= Len(str) /\ str[i] \in skipped THEN SkipAll(str, skipped, i + 1) ELSE i

SpecialSchemes ==
    {<<"h", "t", "t", "p">>, <<"h", "t", "t", "p", "s">>, <<"f", "t", "p">>,
     <<"w", "s">>, <<"w", "s", "s">>, <<"f", "i", "l", "e">>}

ForbiddenHostChars ==
    {" ", "\t", "\r", "\n", "#", "/", ":", "<", ">", "?", "@", "[", "\\", "]",
     "^", "|", "%"}

\* the host and the port of an authority: what follows the last '@', cut
\* at the first ':'
HostPortIsValid(hostPort, portAt, needsHost) ==
    /\ Range(SubSeq(hostPort, 1, portAt - 1)) \cap ForbiddenHostChars = {}
    /\ Range(SubSeq(hostPort, portAt + 1, Len(hostPort))) \subseteq Digits
    /\ needsHost => portAt > 1

AuthorityIsValid(authority, ats, needsHost) ==
    LET hostStart == IF ats = {} THEN 1
                     ELSE 1 + CHOOSE k \in ats : \A m \in ats : m <= k
    IN  HostPortIsValid(SubSeq(authority, hostStart, Len(authority)),
                        IndexOfAny(SubSeq(authority, hostStart, Len(authority)), {":"}, 1),
                        needsHost)

\* rest from index start on, up to the first of stops, is the authority
RestIsValid(rest, start, stops, needsHost) ==
    LET authority == SubSeq(rest, start, IndexOfAny(rest, stops, start) - 1)
    IN  AuthorityIsValid(authority,
                         {k \in 1..Len(authority) : authority[k] = "@"},
                         needsHost)

SchemeIsValid(scheme) ==
    /\ scheme # <<>>
    /\ scheme[1] \in Letters
    /\ Range(scheme) \subseteq Letters \cup Digits \cup {"+", "-", "."}

AfterSchemeIsValid(scheme, rest) ==
    IF scheme \in SpecialSchemes
    THEN RestIsValid(rest, SkipAll(rest, {"/", "\\"}, 1), {"/", "\\", "?", "#"},
                     scheme # <<"f", "i", "l", "e">>)
    ELSE IF Len(rest) >= 2 /\ rest[1] = "/" /\ rest[2] = "/"
    THEN RestIsValid(rest, 3, {"/", "?", "#"}, FALSE)
    ELSE TRUE

UrlSplitIsValid(str, colon) ==
    /\ colon <= Len(str)
    /\ SchemeIsValid(SubSeq(str, 1, colon - 1))
    /\ AfterSchemeIsValid(toLowerCase(SubSeq(str, 1, colon - 1)),
                          SubSeq(str, colon + 1, Len(str)))

\* new URL(str) does not throw: there is no base, so str needs a scheme; a
\* special scheme other than file needs a host. Hosts are checked for
\* forbidden characters and ports for digits (IPv4, IPv6 and IDNA
\* validation of the host are not modelled)
UrlParses(str) == UrlSplitIsValid(str, IndexOfAny(str, {":"}, 1))

\* CsvGenerator.isUrl
isUrl(value) == UrlParses(trim(value))

(* csv.pegjs: the tests of analyzeColumnValues. The grammar source is read *)
(* from the file and the blocks of code in it are taken as written, so a  *)
(* doubled backslash in a regular expression literal is an escaped        *)
(* backslash followed by an ordinary character.                           *)

grammarIsNumeric(value) == IsNumericValue(value)

grammarIsBoolean(value) == toLowerCase(value) \in BooleanWords

grammarIsDate(value) ==
    IF Len(value) < 6 THEN FALSE ELSE DateIsValid(value)

\* /^[^\\s@]+@[^\\s@]+\\.[^\\s@]+$/: the class leaves out the backslash, 's'
\* and '@'; after the second run come a backslash and any one character
grammarIsEmail(value) ==
    LET InClass(c) == c \notin {"\\", "s", "@"}
        Run(a, b) == a <= b /\ \A k \in a..b : InClass(value[k])
    IN  \E i \in 2..Len(value) : \E j \in (i + 2)..(Len(value) - 2) :
            /\ value[i] = "@"
            /\ value[j] = "\\"
            /\ value[j + 1] # "\n"
            /\ Run(1, i - 1)
            /\ Run(i + 1, j - 1)
            /\ Run(j + 2, Len(value))

grammarIsUrl(value) == UrlParses(value)

\* value.replace(/[\\s\\-\\(\\)]/g, ''): the class holds the backslash, 's',
\* the range from backslash to backslash, '(' and ')'
StripPhonePunctuation(value) ==
    LET Kept(c) == c \notin {"\\", "s", "(", ")"}
    IN  SelectSeq(value, Kept)

\* /^[\\+]?[1-9]?[0-9]{7,15}$/ on the stripped value
grammarIsPhone(value) ==
    LET s == StripPhonePunctuation(value)
        ds == IF s # <<>> /\ s[1] \in {"\\", "+"} THEN Tail(s) ELSE s
    IN  /\ Range(ds) \subseteq Digits
        /\ \/ 7 <= Len(ds) /\ Len(ds) <= 15
           \/ Len(ds) = 16 /\ ds[1] # "0"

----------------------------------------------------------------------------
(* parseFloat and the numeric statistics *)

RECURSIVE Pow10(_)
Pow10(k) == IF k = 0 THEN 1 ELSE 10 * Pow10(k - 1)

PlusInfinity == [n |-> 1, d |-> 0]
MinusInfinity == [n |-> -1, d |-> 0]

\* parseFloat(str): Undefined for NaN, else Some(number); the longest prefix
\* that is a decimal literal counts, so "0x10" gives 0
parseFloat(str) ==
    LET t == TrimStart(str)
        n == Len(t)
        negative == n >= 1 /\ t[1] = "-"
        i0 == IF n >= 1 /\ t[1] \in {"+", "-"} THEN 2 ELSE 1
        i1 == SpanDigits(t, i0)
        hasDot == i1 <= n /\ t[i1] = "."
        i2 == IF hasDot THEN SpanDigits(t, i1 + 1) ELSE i1
        intDigits == SubSeq(t, i0, i1 - 1)
        fracDigits == IF hasDot THEN SubSeq(t, i1 + 1, i2 - 1) ELSE <<>>
        j0 == IF i2 + 1 <= n /\ t[i2 + 1] \in {"+", "-"} THEN i2 + 2 ELSE i2 + 1
        j1 == SpanDigits(t, j0)
        hasExp == i2 <= n /\ t[i2] \in {"e", "E"} /\ j1 > j0
        exp == IF hasExp THEN DigitsValue(SubSeq(t, j0, j1 - 1)) ELSE 0
        expNegative == hasExp /\ t[i2 + 1] = "-"
        mantissa == Frac(DigitsValue(intDigits \o fracDigits), Pow10(Len(fracDigits)))
        scaled == IF expNegative THEN FDiv(mantissa, Num(Pow10(exp)))
                  ELSE FMul(mantissa, Num(Pow10(exp)))
    IN  IF i0 + 7 <= n /\ SubSeq(t, i0, i0 + 7) = <<"I", "n", "f", "i", "n", "i", "t", "y">>
        THEN Some(IF negative THEN MinusInfinity ELSE PlusInfinity)
        ELSE IF Len(intDigits) + Len(fracDigits) = 0 THEN Undefined
        ELSE Some(IF negative THEN FSub(Num(0), scaled) ELSE scaled)

RECURSIVE FMinOf(_)
\* Math.min(...numbers)
FMinOf(numbers) ==
    IF numbers = <<>> THEN PlusInfinity
    ELSE IF Len(numbers) = 1 THEN numbers[1]
    ELSE LET h == Len(numbers) \div 2
             a == FMinOf(SubSeq(numbers, 1, h))
             b == FMinOf(SubSeq(numbers, h + 1, Len(numbers)))
         IN  IF FLt(b, a) THEN b ELSE a

RECURSIVE FMaxOf(_)
\* Math.max(...numbers)
FMaxOf(numbers) ==
    IF numbers = <<>> THEN MinusInfinity
    ELSE IF Len(numbers) = 1 THEN numbers[1]
    ELSE LET h == Len(numbers) \div 2
             a == FMaxOf(SubSeq(numbers, 1, h))
             b == FMaxOf(SubSeq(numbers, h + 1, Len(numbers)))
         IN  IF FGt(b, a) THEN b ELSE a

\* numbers.slice().sort((a, b) => a - b): the sort is stable, so the element
\* at index i lands after the smaller ones and the equal ones before it
SortAscending(numbers) ==
    LET n == Len(numbers)
        Rank(i) == Cardinality({j \in 1..n : FLt(numbers[j], numbers[i])})
                   + Cardinality({j \in 1..i : numbers[j] = numbers[i]})
    IN  [k \in 1..n |-> numbers[CHOOSE i \in 1..n : Rank(i) = k]]

\* csv.pegjs calculateMedian, for a list that is not empty
calculateMedian_UpperMiddle(numbers) ==
    LET sorted == SortAscending(numbers)
        mid == Len(sorted) \div 2
    IN  sorted[mid + 1]
calculateMedian(numbers) ==
    LET sorted == SortAscending(numbers)
        mid == Len(sorted) \div 2
    IN  IF Len(sorted) % 2 = 0
        THEN FDiv(FAdd(sorted[mid], sorted[mid + 1]), Num(2))
        ELSE sorted[mid + 1]

----------------------------------------------------------------------------
(* Column type inference *)

TypeSampleSize == 100

\* values.slice(0, Math.min(100, values.length))
TypeSample(values) == SubSeq(values, 1, Min(TypeSampleSize, Len(values)))

\* count / total >= threshold, with threshold = 0.8
ReachesThreshold_Strict(count, total) ==
    FGt(FDiv(Num(count), Num(total)), Frac(8, 10))
ReachesThreshold(count, total) ==
    FGe(FDiv(Num(count), Num(total)), Frac(8, 10))

\* the counters of CsvGenerator.inferColumnType after the loop of lines 266-293
PatternCounts(sample) ==
    LET IsBoolean(value) == toLowerCase(trim(value)) \in BooleanWords
    IN  [numeric |-> Len(SelectSeq(sample, IsNumericValue)),
         boolean |-> Len(SelectSeq(sample, IsBoolean)),
         date    |-> Len(SelectSeq(sample, isDate)),
         email   |-> Len(SelectSeq(sample, isEmail)),
         url     |-> Len(SelectSeq(sample, isUrl))]

\* lines 305-310
MixedOrString_NeverMixed(c) == "string"
MixedOrString(c) ==
    LET typeCount == Cardinality({p \in DOMAIN c : c[p] > 0})
    IN  IF typeCount > 1 THEN "mixed" ELSE "string"

\* lines 298-310 on the counters c of a sample of total values
TypeOfCounts(c, total) ==
    IF ReachesThreshold(c.email, total) THEN "email"
    ELSE IF ReachesThreshold(c.url, total) THEN "url"
    ELSE IF ReachesThreshold(c.boolean, total) THEN "boolean"
    ELSE IF ReachesThreshold(c.numeric, total) THEN "number"
    ELSE IF ReachesThreshold(c.date, total) THEN "date"
    ELSE MixedOrString(c)

\* CsvGenerator.inferColumnType
inferColumnType(values) ==
    IF Len(values) = 0 THEN "string"
    ELSE TypeOfCounts(PatternCounts(TypeSample(values)), Len(TypeSample(values)))

\* the patterns record of csv.pegjs analyzeColumnValues after its loop, for
\* the trimmed values of the sample
grammarPatterns(trimmed) ==
    [numeric |-> Len(SelectSeq(trimmed, grammarIsNumeric)),
     boolean |-> Len(SelectSeq(trimmed, grammarIsBoolean)),
     date    |-> Len(SelectSeq(trimmed, grammarIsDate)),
     email   |-> Len(SelectSeq(trimmed, grammarIsEmail)),
     url     |-> Len(SelectSeq(trimmed, grammarIsUrl)),
     phone   |-> Len(SelectSeq(trimmed, grammarIsPhone))]

\* csv.pegjs lines 232-238
grammarTypeOfPatterns(p, total) ==
    IF ReachesThreshold(p.email, total) THEN "email"
    ELSE IF ReachesThreshold(p.url, total) THEN "url"
    ELSE IF ReachesThreshold(p.phone, total) THEN "phone"
    ELSE IF ReachesThreshold(p.boolean, total) THEN "boolean"
    ELSE IF ReachesThreshold(p.numeric, total) THEN "number"
    ELSE IF ReachesThreshold(p.date, total) THEN "date"
    ELSE "string"

NoStatistics ==
    [minLength |-> Undefined, maxLength |-> Undefined, avgLength |-> Undefined,
     min |-> Undefined, max |-> Undefined, avg |-> Undefined, median |-> Undefined]

\* csv.pegjs lines 241-252
grammarStatistics(lengths, numericValues, numbered) ==
    [minLength |-> Some(FMinOf(lengths)),
     maxLength |-> Some(FMaxOf(lengths)),
     avgLength |-> Some(FDiv(FSum(lengths), Num(Len(lengths)))),
     min |-> IF numbered THEN Some(FMinOf(numericValues)) ELSE Undefined,
     max |-> IF numbered THEN Some(FMaxOf(numericValues)) ELSE Undefined,
     avg |-> IF numbered
             THEN Some(FDiv(FSum(numericValues), Num(Len(numericValues))))
             ELSE Undefined,
     median |-> IF numbered THEN Some(calculateMedian(numericValues)) ELSE Undefined]

\* numericValues: parseFloat of the trimmed values that are numeric
grammarNumericValues(trimmed) ==
    LET Parsed(value) == parseFloat(value)[1]
    IN  Map(Parsed, SelectSeq(trimmed, grammarIsNumeric))

grammarLengths(trimmed) ==
    LET Length(value) == Num(Len(value))
    IN  Map(Length, trimmed)

grammarAnalysis(trimmed, type) ==
    [type |-> type,
     statistics |-> grammarStatistics(grammarLengths(trimmed),
                                      grammarNumericValues(trimmed),
                                      type = "number" /\ \E k \in 1..Len(trimmed) :
                                                            grammarIsNumeric(trimmed[k]))]

grammarAnalyzeSample(trimmed) ==
    grammarAnalysis(trimmed, grammarTypeOfPatterns(grammarPatterns(trimmed), Len(trimmed)))

\* csv.pegjs analyzeColumnValues: [type, statistics]
analyzeColumnValues(values) ==
    IF Len(values) = 0 THEN [type |-> "string", statistics |-> NoStatistics]
    ELSE grammarAnalyzeSample(Map(trim, TypeSample(values)))

----------------------------------------------------------------------------
(* JsonGenerator (markdown.pegjs lines 442-550), XmlGenerator.ts and       *)
(* YamlGenerator (part_005): generate.  The parsers (JSON.parse,           *)
(* fast-xml-parser, js-yaml) are outside the repository: what one gives    *)
(* for a content is a value or a thrown Error.  A value is null, a string, *)
(* a number, a boolean, an array of values, or an object whose entries are *)
(* kept in the order of Object.entries.  Of a node, the title, type,       *)
(* depth, children and id are kept; its metadata is left out.              *)

Scalar(t) == [t |-> t, items |-> <<>>, entries |-> <<>>]
ArrayOf(items) == [t |-> "array", items |-> items, entries |-> <<>>]
ObjectOf(entries) == [t |-> "object", items |-> <<>>, entries |-> entries]
Entry(key, value) == [key |-> key, value |-> value]

\* typeof value === 'object' && value !== null
IsObjectLike(value) == value.t \in {"array", "object"}

\* typeof value === 'object', which null answers too
TypeofIsObject(value) == value.t \in {"null", "array", "object"}

\* Object.entries(value); the entries of an array are its items under their
\* indices
EntriesOf(value) ==
    IF value.t = "array"
    THEN [i \in 1..Len(value.items) |-> Entry(NumberToString(i - 1), value.items[i])]
    ELSE value.entries

\* the type names, as strings of the program
TypeNameChars ==
    [null |-> <<"n", "u", "l", "l">>, string |-> <<"s", "t", "r", "i", "n", "g">>, number |-> <<"n", "u", "m", "b", "e", "r">>, boolean |-> <<"b", "o", "o", "l", "e", "a", "n">>,
     array |-> <<"a", "r", "r", "a", "y">>, object |-> <<"o", "b", "j", "e", "c", "t">>, element |-> <<"e", "l", "e", "m", "e", "n", "t">>, text |-> <<"t", "e", "x", "t">>,
     property |-> <<"p", "r", "o", "p", "e", "r", "t", "y">>]

\* createNode followed by node.id = this.generateId(key, node.type)
NodeWithId(key, type, depth, children) ==
    [createNode(key, TypeNameChars[type], depth) EXCEPT !.children = Some(children)]
        @@ [id |-> generateId(key, TypeNameChars[type], Undefined)]

\* YamlGenerator.getYamlType of a parsed value
getYamlType(value) == value.t

RECURSIVE yamlToOutline(_, _, _)
YamlNode(entry, maxD, depth) ==
    LET isArray == entry.value.t = "array"
        hasChildren == IsObjectLike(entry.value)
        type == IF isArray THEN "array"
                ELSE IF hasChildren THEN "object" ELSE getYamlType(entry.value)
    IN  NodeWithId(entry.key, type, depth,
                   IF hasChildren THEN yamlToOutline(entry.value, maxD, depth + 1) ELSE <<>>)
yamlToOutline(data, maxD, depth) ==
    LET Node(entry) == YamlNode(entry, maxD, depth)
    IN  filterByDepth(IF IsObjectLike(data) THEN Map(Node, EntriesOf(data)) ELSE <<>>, maxD)

\* key.startsWith('@_')
IsAttributeKey(key) == Len(key) >= 2 /\ key[1] = "@" /\ key[2] = "_"

ArrayItemsShown == 3

RECURSIVE xmlToOutline(_, _, _)
\* XmlGenerator.xmlToOutline lines 51-60: the nodes of the first items
XmlItemNodes(items, maxD, depth) ==
    LET shown == SubSeq(items, 1, Min(Len(items), ArrayItemsShown))
        ItemNodes(item) == IF TypeofIsObject(item) THEN xmlToOutline(item, maxD, depth + 1)
                           ELSE <<>>
    IN  Concat(Map(ItemNodes, shown))
XmlNode(entry, maxD, depth) ==
    LET isArray == entry.value.t = "array"
        hasChildren == entry.value.t = "object"
        type == IF isArray THEN "array" ELSE IF hasChildren THEN "element" ELSE "text"
    IN  NodeWithId(entry.key, type, depth,
                   IF hasChildren THEN xmlToOutline(entry.value, maxD, depth + 1)
                   ELSE IF isArray THEN XmlItemNodes(entry.value.items, maxD, depth)
                   ELSE <<>>)
xmlToOutline(data, maxD, depth) ==
    LET Node(entry) == XmlNode(entry, maxD, depth)
        NotAttribute(entry) == ~IsAttributeKey(entry.key)
    IN  filterByDepth(IF IsObjectLike(data)
                      THEN Map(Node, SelectSeq(EntriesOf(data), NotAttribute))
                      ELSE <<>>, maxD)

\* a JsonSchema; properties in the order of Object.entries
TypeSchema(type) ==
    [type |-> type, properties |-> Undefined, items |-> Undefined, required |-> Undefined]

\* JsonGenerator.getType of a value that is not undefined
getType(value) == value.t

RECURSIVE generateSchema(_)
generateSchema(data) ==
    LET Property(entry) == Entry(entry.key, generateSchema(entry.value))
        Required(entry) == entry.value.t # "null"
        Key(entry) == entry.key
        required == Map(Key, SelectSeq(data.entries, Required))
    IN  IF data.t = "array"
        THEN [TypeSchema("array") EXCEPT !.items =
                 Some(IF Len(data.items) > 0 THEN generateSchema(data.items[1])
                      ELSE TypeSchema("any"))]
        ELSE IF data.t = "object"
        THEN [TypeSchema("object") EXCEPT
                 !.properties = Some(Map(Property, data.entries)),
                 !.required = IF Len(required) > 0 THEN Some(required) ELSE Undefined]
        ELSE TypeSchema(getType(data))

\* schema.type === 'object' && schema.properties
HasProperties(schema) == schema.type = "object" /\ schema.properties # Undefined

\* property.type === 'array' && property.items, and the items are objects
HasObjectItems(schema) ==
    /\ schema.type = "array"
    /\ schema.items # Undefined
    /\ HasProperties(schema.items[1])

\* the schema object literals of schemaToOutline lines 514-518, 522-526, 535-539
ObjectSchemaOf(property) ==
    [TypeSchema("object") EXCEPT !.properties = property.properties,
                                 !.required = property.required]

RECURSIVE schemaToOutline(_, _, _)
PropertyNode(entry, maxD, depth) ==
    NodeWithId(entry.key, "property", depth,
               IF HasProperties(entry.value)
               THEN schemaToOutline(ObjectSchemaOf(entry.value), maxD, depth + 1)
               ELSE IF HasObjectItems(entry.value)
               THEN schemaToOutline(ObjectSchemaOf(entry.value.items[1]), maxD, depth + 1)
               ELSE <<>>)
schemaToOutline(schema, maxD, depth) ==
    LET Node(entry) == PropertyNode(entry, maxD, depth)
    IN  filterByDepth(IF HasProperties(schema) THEN Map(Node, schema.properties[1])
                      ELSE IF HasObjectItems(schema)
                      THEN schemaToOutline(ObjectSchemaOf(schema.items[1]), maxD, depth)
                      ELSE <<>>, maxD)

\* what a parser gives for a content
NotParsed == [kind |-> "none", data |-> Scalar("null"), isError |-> FALSE, message |-> <<>>]
Parsed(data) ==
    [kind |-> "parsed", data |-> data, isError |-> FALSE, message |-> <<>>]
Thrown(isError, message) ==
    [kind |-> "thrown", data |-> Scalar("null"), isError |-> isError, message |-> message]

\* how the promise of an async generate settles
Resolved(outline) == [kind |-> "resolve", forest |-> Some(outline), message |-> <<>>]
Rejected(message) == [kind |-> "reject", forest |-> Undefined, message |-> message]
NotSettled == [kind |-> "pending", forest |-> Undefined, message |-> <<>>]

UnknownError == <<"U", "n", "k", "n", "o", "w", "n", " ", "e", "r", "r", "o", "r">>

\* error instanceof Error ? error.message : 'Unknown error'
ErrorText_AlwaysUnknown(thrown) == UnknownError
ErrorText(thrown) == IF thrown.isError THEN thrown.message ELSE UnknownError

\* JsonGenerator.generate
JsonGenerate(parsed, maxD) ==
    IF parsed.kind = "thrown"
    THEN Rejected(<<"I", "n", "v", "a", "l", "i", "d", " ", "J", "S", "O", "N", ":", " ">> \o ErrorText(parsed))
    ELSE Resolved(schemaToOutline(generateSchema(parsed.data), maxD, 1))

\* XmlGenerator.generate
XmlGenerate(parsed, maxD) ==
    IF parsed.kind = "thrown"
    THEN Rejected(<<"I", "n", "v", "a", "l", "i", "d", " ", "X", "M", "L", ":", " ">> \o ErrorText(parsed))
    ELSE Resolved(xmlToOutline(parsed.data, maxD, 1))

\* YamlGenerator.generate
YamlGenerate(parsed, maxD) ==
    IF parsed.kind = "thrown"
    THEN Rejected(<<"I", "n", "v", "a", "l", "i", "d", " ", "Y", "A", "M", "L", ":", " ">> \o ErrorText(parsed))
    ELSE Resolved(yamlToOutline(parsed.data, maxD, 1))

----------------------------------------------------------------------------
(* FromPeggyGrammarGenerator.ts *)

PeggyGrammarPath == <<"g", ".", "p", "e", "g", "j", "s">>

FailedToInitializePrefix ==
    <<"F", "a", "i", "l", "e", "d", " ", "t", "o", " ", "i", "n", "i", "t", "i", "a", "l", "i", "z", "e", " ",
      "P", "e", "g", "g", "y", " ", "p", "a", "r", "s", "e", "r">>

\* what reading and compiling the grammar gives on one attempt
Compiles == [ok |-> TRUE, error |-> <<>>]
CompileFails(error) == [ok |-> FALSE, error |-> error]

\* initializeParser: this.parser and the number of parsers built after the
\* call, and how the call ends.  It has no await: it runs to its end in one
\* step.
initializeParser_NoGuard(parser, compiled, compile) ==
    IF compile.ok
    THEN [parser |-> Some(compiled + 1), compiled |-> compiled + 1,
          kind |-> "return", message |-> <<>>]
    ELSE [parser |-> parser, compiled |-> compiled,
          kind |-> "throw",
          message |-> FailedToInitializePrefix \o <<" ", "f", "r", "o", "m", " ">>
                          \o PeggyGrammarPath \o <<":", " ">> \o compile.error]
initializeParser(parser, compiled, compile) ==
    IF parser # Undefined
    THEN [parser |-> parser, compiled |-> compiled, kind |-> "return", message |-> <<>>]
    ELSE IF compile.ok
    THEN [parser |-> Some(compiled + 1), compiled |-> compiled + 1,
          kind |-> "return", message |-> <<>>]
    ELSE [parser |-> parser, compiled |-> compiled,
          kind |-> "throw",
          message |-> FailedToInitializePrefix \o <<" ", "f", "r", "o", "m", " ">>
                          \o PeggyGrammarPath \o <<":", " ">> \o compile.error]

\* what this.parser.parse gives: an array, a node, an object with a nodes
\* array, something else, or a throw whose error may carry partialResult
ParseGives(kind, outline) == [kind |-> kind, outline |-> outline, partial |-> Undefined]
ParseThrows(partial) == [kind |-> "throw", outline |-> <<>>, partial |-> partial]

\* generate, lines 47-86: the try block and its catch
parseContent(parsed, maxD) ==
    IF parsed.kind = "throw"
    THEN Resolved(IF parsed.partial = Undefined THEN <<>> ELSE parsed.partial[1])
    ELSE IF parsed.kind \in {"array", "node", "nodes"}
    THEN Resolved(filterByDepth(parsed.outline, maxD))
    ELSE Resolved(<<>>)

\* getParserInfo().initialized: !!this.parser
getParserInfo(parser) == [grammarPath |-> PeggyGrammarPath, initialized |-> parser # Undefined]

\* a generate call: where it is, how its initializeParser ended, its
\* options.maxDepth, what the parser gave and how its promise settled
PeggyCall(pc, init, maxD, parsed, settled) ==
    [pc |-> pc, init |-> init, maxDepth |-> maxD, parsed |-> parsed, settled |-> settled]
NotCalled == PeggyCall("idle", "none", Undefined, ParseGives("none", <<>>), NotSettled)

----------------------------------------------------------------------------
(* The state of a component that a specification does not run *)

\* the record kept in outcome
Call(op, ext, content, options, kind, value) ==
    [op |-> op, ext |-> ext, content |-> content, options |-> options,
     kind |-> kind, value |-> value]

HierIdle ==
    /\ producer = "createNode" /\ nodes = <<>> /\ hPc = "idle"
    /\ maxDepth = Undefined /\ forestIn = <<>> /\ forest = <<>>

RegIdle ==
    /\ usePeggyGenerators = FALSE /\ generators = <<>> /\ invoked = <<>>
    /\ outcome = Call("idle", <<>>, "", Undefined, "return", <<>>)
    /\ lastRegistered = <<>>

\* generate has not settled
Pending == [kind |-> "pending", maxDepth |-> Undefined, value |-> <<>>]

CsvIdle ==
    /\ csvContent = <<>> /\ csvPc = "idle" /\ csvLines = <<>>
    /\ csvDelimiter = "," /\ csvRows = <<>> /\ csvHasHeader = FALSE
    /\ csvColumnCount = 0 /\ csvColumns = <<>> /\ csvOutcome = Pending

ColIdle ==
    /\ colValues = <<>> /\ colNumbers = <<>> /\ colPc = "idle" /\ colType = "string"
    /\ colStatistics = NoStatistics /\ colMedian = Undefined

SlugIdle ==
    /\ slugTitle = <<>> /\ slugType = <<>> /\ slugLine = Undefined
    /\ slugPc = "idle" /\ slugResult = <<>>

TreeIdle ==
    /\ treeGenerator = "none" /\ treeMaxDepth = Undefined
    /\ treeParsed = NotParsed
    /\ treePc = "idle"
    /\ treeOutcome = NotSettled

LineIdle ==
    /\ lineText = <<>> /\ lineDelimiter = "," /\ linePc = "idle" /\ lineFields = <<>>

MdIdle ==
    /\ mdLines = <<>> /\ mdFrontmatter = <<>> /\ mdOptions = MarkdownOptions(Undefined, FALSE)
    /\ mdPc = "idle" /\ mdOutline = <<>>

PgIdle ==
    /\ pgParser = Undefined /\ pgCompiled = 0 /\ pgCalls = <<>>

----------------------------------------------------------------------------
(* SpecHierarchy *)

NodeShapes(p) ==
    IF p = "grammar"
    THEN \* header / altHeader give depth = level; every other element depth 1
         {<<"heading", d>> : d \in 1..MaxNodeDepth} \cup {<<"paragraph", 1>>}
    ELSE {<<"heading", d>> : d \in 1..MaxNodeDepth}

FlatList(p, shapes) ==
    [k \in 1..Len(shapes) |->
        IF p = "literal"
        THEN LiteralNode(k, shapes[k][1], shapes[k][2])
        ELSE createNode(k, shapes[k][1], shapes[k][2])]

MaxDepthOpts == {Undefined} \cup {Some(d) : d \in 0..MaxDepthOpt}

HierInit ==
    /\ producer \in {"createNode", "grammar", "literal"}
    /\ \E shapes \in SeqsUpTo(NodeShapes(producer), MaxNodes) :
          nodes = (IF shapes = <<>> THEN <<>> ELSE FlatList(producer, shapes))
    /\ hPc = "flat"
    /\ maxDepth = Undefined
    /\ forestIn = <<>>
    /\ forest = <<>>
    /\ RegIdle
    /\ CsvIdle
    /\ ColIdle
    /\ SlugIdle
    /\ TreeIdle
    /\ LineIdle
    /\ MdIdle
    /\ PgIdle

\* OutlineGenerator.buildHierarchy on a flat list
BuildHierarchy ==
    /\ hPc = "flat"
    /\ producer # "grammar"
    /\ forest' = buildHierarchy(nodes)
    /\ hPc' = "built"
    /\ UNCHANGED <<producer, nodes, maxDepth, forestIn>>
    /\ UNCHANGED notHierVars

\* the grammar's document action: buildHierarchy(flatNodes)
GrammarBuildHierarchy ==
    /\ hPc = "flat"
    /\ producer = "grammar"
    /\ forest' = grammarBuildHierarchy(nodes)
    /\ hPc' = "grammarBuilt"
    /\ UNCHANGED <<producer, nodes, maxDepth, forestIn>>
    /\ UNCHANGED notHierVars

\* filterByDepth on an assembled forest (FromPeggyGrammarGenerator.generate,
\* statsToOutline, xmlToOutline, elementsToOutline)
FilterByDepth ==
    /\ hPc \in {"built", "grammarBuilt"}
    /\ \E d \in MaxDepthOpts :
          /\ maxDepth' = d
          /\ forest' = filterByDepth(forest, d)
    /\ forestIn' = forest
    /\ hPc' = "filtered"
    /\ UNCHANGED <<producer, nodes>>
    /\ UNCHANGED notHierVars

\* MarkdownGenerator.generate on the heading nodes of a document
MarkdownGeneratorGenerate ==
    /\ hPc = "flat"
    /\ producer = "createNode"
    /\ \E d \in MaxDepthOpts :
          /\ maxDepth' = d
          /\ forest' = MarkdownGenerate(nodes, d)
    /\ hPc' = "generated"
    /\ UNCHANGED <<producer, nodes, forestIn>>
    /\ UNCHANGED notHierVars

HierNext ==
    \/ BuildHierarchy
    \/ GrammarBuildHierarchy
    \/ FilterByDepth
    \/ MarkdownGeneratorGenerate

----------------------------------------------------------------------------
(* index.ts: DocumentOutlineGenerator *)

\* Map.prototype.get on a Map kept as a sequence of entries in insertion order
MapGet(m, key) ==
    IF \E i \in 1..Len(m) : m[i].key = key
    THEN Some(m[CHOOSE i \in 1..Len(m) : m[i].key = key].value)
    ELSE Undefined

\* Map.prototype.set: an existing key keeps its place, a new key goes last
MapSet(m, key, value) ==
    IF \E i \in 1..Len(m) : m[i].key = key
    THEN [i \in 1..Len(m) |-> IF m[i].key = key THEN [key |-> key, value |-> value] ELSE m[i]]
    ELSE Append(m, [key |-> key, value |-> value])

MapKeys(m) == LET K(e) == e.key IN Map(K, m)

\* the generators.set calls of registerDefaultGenerators, in program order;
\* a generator is named by its class (the default generators keep no state
\* this registry looks at)
DefaultRegistrations(usePeggy) ==
    (IF usePeggy
     THEN << <<<<"m", "d">>, "PeggyMarkdownGenerator">>,
             <<<<"m", "a", "r", "k", "d", "o", "w", "n">>, "PeggyMarkdownGenerator">>,
             <<<<"c", "s", "v">>, "PeggyCsvGenerator">> >>
     ELSE << <<<<"m", "d">>, "MarkdownGenerator">>,
             <<<<"m", "a", "r", "k", "d", "o", "w", "n">>, "MarkdownGenerator">>,
             <<<<"c", "s", "v">>, "CsvGenerator">> >>)
    \o << <<<<"j", "s", "o", "n">>, "JsonGenerator">>,
          <<<<"x", "m", "l">>, "XmlGenerator">>,
          <<<<"y", "a", "m", "l">>, "YamlGenerator">>,
          <<<<"y", "m", "l">>, "YamlGenerator">>,
          <<<<"h", "t", "m", "l">>, "HtmlGenerator">>,
          <<<<"h", "t", "m">>, "HtmlGenerator">>,
          <<<<"j", "s">>, "JavaScriptGenerator">>,
          <<<<"j", "s", "x">>, "JavaScriptGenerator">>,
          <<<<"t", "s">>, "TypeScriptGenerator">>,
          <<<<"t", "s", "x">>, "TypeScriptGenerator">>,
          <<<<"p", "y">>, "PythonGenerator">>,
          <<<<"j", "a", "v", "a">>, "JavaGenerator">>,
          <<<<"c", "s">>, "CSharpGenerator">>,
          <<<<"c", "p", "p">>, "CppGenerator">> >>

RECURSIVE SetAll(_, _)
SetAll(m, regs) ==
    IF regs = <<>> THEN m
    ELSE SetAll(MapSet(m, Head(regs)[1], Head(regs)[2]), Tail(regs))

registerDefaultGenerators(m, usePeggy) == SetAll(m, DefaultRegistrations(usePeggy))

registerGenerator_NoLowerCase(m, extension, generator) ==
    MapSet(m, extension, generator)
registerGenerator(m, extension, generator) ==
    MapSet(m, toLowerCase(extension), generator)

NoGeneratorPrefix ==
    <<"N", "o", " ", "g", "e", "n", "e", "r", "a", "t", "o", "r", " ", "f", "o", "u", "n", "d", " ", "f", "o", "r", " ", "f", "i", "l", "e", " ", "e", "x", "t", "e", "n", "s", "i", "o", "n", ":", " ">>

\* the template literal of line 202
NoGeneratorMessage_LowerCased(fileExtension) ==
    NoGeneratorPrefix \o toLowerCase(fileExtension)
NoGeneratorMessage(fileExtension) == NoGeneratorPrefix \o fileExtension

\* GeneratorOptions; {} has no maxDepth
EmptyOptions == [maxDepth |-> Undefined]

\* the default parameter value options = {}
OptionsOrDefault(options) == IF options = Undefined THEN EmptyOptions ELSE options[1]

\* one call generator.generate(content, options)
Invocation(generator, content, options) ==
    [generator |-> generator, content |-> content, options |-> options]

\* generateFromContent: what the call gives back, the generate calls it
\* makes and this.generators after it (the only Map method called is get).
\* The function is not async: its throw statement reaches the caller as an
\* exception ("throw"); otherwise it returns the promise of
\* generator.generate ("return").
generateFromContent_Caching(m, content, fileExtension, options) ==
    LET generator == MapGet(m, toLowerCase(fileExtension))
    IN  IF generator = Undefined
        THEN [kind       |-> "throw",
              value      |-> NoGeneratorMessage(fileExtension),
              invoked    |-> <<>>,
              generators |-> MapSet(m, toLowerCase(fileExtension), "none")]
        ELSE LET call == Invocation(generator[1], content, OptionsOrDefault(options))
             IN  [kind       |-> "return",
                  value      |-> call,
                  invoked    |-> <<call>>,
                  generators |-> m]
generateFromContent(m, content, fileExtension, options) ==
    LET generator == MapGet(m, toLowerCase(fileExtension))
    IN  IF generator = Undefined
        THEN [kind       |-> "throw",
              value      |-> NoGeneratorMessage(fileExtension),
              invoked    |-> <<>>,
              generators |-> m]
        ELSE LET call == Invocation(generator[1], content, OptionsOrDefault(options))
             IN  [kind       |-> "return",
                  value      |-> call,
                  invoked    |-> <<call>>,
                  generators |-> m]

\* getSupportedExtensions: Array.from(this.generators.keys())
getSupportedExtensions(m) == MapKeys(m)

\* isSupported: this.generators.has(fileExtension.toLowerCase())
isSupported_AsWritten(m, fileExtension) ==
    \E i \in 1..Len(m) : m[i].key = fileExtension
isSupported(m, fileExtension) ==
    \E i \in 1..Len(m) : m[i].key = toLowerCase(fileExtension)

\* setPeggyGenerators: the generators after the call, usePeggyGenerators
\* having been set to enabled
setPeggyGenerators_FromScratch(m, enabled) == registerDefaultGenerators(<<>>, enabled)
setPeggyGenerators(m, enabled) == registerDefaultGenerators(m, enabled)

RECURSIVE RegisterEach(_, _, _)
\* the for loop of registerPeggyGenerator
RegisterEach(m, extArray, generator) ==
    IF extArray = <<>> THEN m
    ELSE RegisterEach(registerGenerator(m, Head(extArray), generator), Tail(extArray), generator)

GrammarNotFoundPrefix ==
    <<"G", "r", "a", "m", "m", "a", "r", " ", "f", "i", "l", "e", " ", "n", "o", "t", " ", "f", "o", "u", "n", "d", ":", " ">>

\* registerPeggyGenerator with the extensions as an array; fromGrammarFile
\* throws when the grammar file does not exist, before anything is registered
registerPeggyGenerator(m, extArray, grammarPath, grammarExists) ==
    IF ~grammarExists
    THEN [kind |-> "throw", value |-> GrammarNotFoundPrefix \o grammarPath, generators |-> m]
    ELSE [kind |-> "return", value |-> <<>>,
          generators |-> RegisterEach(m, extArray, "FromPeggyGrammarGenerator")]

----------------------------------------------------------------------------
(* SpecRegistry *)

\* extensions the caller passes, as written
ExtensionInputs == {<<"m", "d">>, <<"M", "D">>, <<"x", "y", "z">>, <<"X", "Y", "Z">>, <<"C", "s", "v">>}
CustomGenerators == {"customGenerator1", "customGenerator2"}
\* extension arrays handed to registerPeggyGenerator, and the grammar path
PeggyExtensionInputs == {<< <<"X", "Y", "Z">> >>, << <<"m", "d">>, <<"C", "s", "v">> >>}
GrammarPath == <<"g", ".", "p", "e", "g", "j", "s">>
ContentInputs == {"test", "content"}
OptionsInputs == {Undefined, Some(EmptyOptions), Some([maxDepth |-> Some(2)])}

RegistryKeys ==
    {toLowerCase(e) : e \in ExtensionInputs}
        \cup {DefaultRegistrations(FALSE)[i][1] : i \in 1..Len(DefaultRegistrations(FALSE))}

RECURSIVE NoteAll(_, _)
\* lastRegistered after the registrations regs
NoteAll(last, regs) ==
    IF regs = <<>> THEN last
    ELSE NoteAll([last EXCEPT ![Head(regs)[1]] = Some(Head(regs)[2])], Tail(regs))

\* new DocumentOutlineGenerator(): usePeggyGenerators = false, defaults registered
RegInit ==
    /\ usePeggyGenerators = FALSE
    /\ generators = registerDefaultGenerators(<<>>, FALSE)
    /\ invoked = <<>>
    /\ outcome = Call("constructor", <<>>, "", Undefined, "return", <<>>)
    /\ lastRegistered =
          NoteAll([k \in RegistryKeys |-> Undefined], DefaultRegistrations(FALSE))
    /\ HierIdle
    /\ CsvIdle
    /\ ColIdle
    /\ SlugIdle
    /\ TreeIdle
    /\ LineIdle
    /\ MdIdle
    /\ PgIdle

RegisterGenerator ==
    \E e \in ExtensionInputs : \E g \in CustomGenerators :
        /\ generators' = registerGenerator(generators, e, g)
        /\ invoked' = <<>>
        /\ outcome' = Call("registerGenerator", e, "", Undefined, "return", g)
        /\ lastRegistered' = [lastRegistered EXCEPT ![toLowerCase(e)] = Some(g)]
        /\ UNCHANGED usePeggyGenerators
        /\ UNCHANGED notRegVars

GenerateFromContent ==
    \E c \in ContentInputs : \E e \in ExtensionInputs : \E o \in OptionsInputs :
        LET r == generateFromContent(generators, c, e, o)
        IN  /\ invoked' = r.invoked
            /\ outcome' = Call("generateFromContent", e, c, o, r.kind, r.value)
            /\ generators' = r.generators
            /\ UNCHANGED <<usePeggyGenerators, lastRegistered>>
            /\ UNCHANGED notRegVars

SetPeggyGenerators ==
    \E enabled \in BOOLEAN :
        /\ usePeggyGenerators' = enabled
        /\ generators' = setPeggyGenerators(generators, enabled)
        /\ invoked' = <<>>
        /\ outcome' = Call("setPeggyGenerators", <<>>, "", Undefined, "return", <<>>)
        /\ lastRegistered' = NoteAll(lastRegistered, DefaultRegistrations(enabled))
        /\ UNCHANGED notRegVars

\* registerPeggyGenerator(extensions, grammarPath); a single extension is
\* wrapped in an array first
RegisterPeggyGenerator ==
    \E extArray \in PeggyExtensionInputs : \E grammarExists \in BOOLEAN :
        LET r == registerPeggyGenerator(generators, extArray, GrammarPath, grammarExists)
            Noted(e) == <<toLowerCase(e), "FromPeggyGrammarGenerator">>
        IN  /\ generators' = r.generators
            /\ invoked' = <<>>
            /\ outcome' = Call("registerPeggyGenerator", extArray, "", Undefined, r.kind, r.value)
            /\ lastRegistered' = IF r.kind = "throw" THEN lastRegistered
                                 ELSE NoteAll(lastRegistered, Map(Noted, extArray))
            /\ UNCHANGED usePeggyGenerators
            /\ UNCHANGED notRegVars

IsSupported ==
    \E e \in ExtensionInputs :
        /\ outcome' = Call("isSupported", e, "", Undefined, "return", isSupported(generators, e))
        /\ invoked' = <<>>
        /\ UNCHANGED <<generators, usePeggyGenerators, lastRegistered>>
        /\ UNCHANGED notRegVars

GetSupportedExtensions ==
    /\ outcome' = Call("getSupportedExtensions", <<>>, "", Undefined, "return",
                       getSupportedExtensions(generators))
    /\ invoked' = <<>>
    /\ UNCHANGED <<generators, usePeggyGenerators, lastRegistered>>
    /\ UNCHANGED notRegVars

RegNext ==
    \/ RegisterGenerator
    \/ GenerateFromContent
    \/ SetPeggyGenerators
    \/ RegisterPeggyGenerator
    \/ IsSupported
    \/ GetSupportedExtensions

----------------------------------------------------------------------------
(* CsvGenerator.ts: the column count, the column profiles and the outline *)

RECURSIVE CountLengths(_, _, _)
\* getColumnCount lines 199-204: the Map row length -> number of rows
CountLengths(rows, k, counts) ==
    IF k > Len(rows) THEN counts
    ELSE LET count == Len(rows[k])
             seen == MapGet(counts, count)
         IN  CountLengths(rows, k + 1,
                 MapSet(counts, count, (IF seen = Undefined THEN 0 ELSE seen[1]) + 1))

\* getColumnCount line 211
MoreFrequent_OrEqual(frequency, maxCount) == frequency >= maxCount
MoreFrequent(frequency, maxCount) == frequency > maxCount

RECURSIVE BestCountLoop(_, _, _, _)
\* getColumnCount lines 207-215: the entries in insertion order
BestCountLoop(counts, k, maxCount, bestColumnCount) ==
    IF k > Len(counts) THEN bestColumnCount
    ELSE IF MoreFrequent(counts[k].value, maxCount)
         THEN BestCountLoop(counts, k + 1, counts[k].value, counts[k].key)
         ELSE BestCountLoop(counts, k + 1, maxCount, bestColumnCount)

getColumnCount(rows) == BestCountLoop(CountLengths(rows, 1, <<>>), 1, 0, 0)

\* `Column_${i + 1}`
DefaultColumnName(colIndex) ==
    <<"C", "o", "l", "u", "m", "n", "_">> \o NumberToString(colIndex + 1)

\* analyzeCsv lines 71-73
Headers(rows, hasHeader, columnCount) ==
    IF hasHeader /\ Len(rows) > 0
    THEN SubSeq(rows[1], 1, Min(columnCount, Len(rows[1])))
    ELSE [i \in 1..columnCount |-> DefaultColumnName(i - 1)]

\* analyzeCsv line 76
DataRows(rows, hasHeader) == IF hasHeader THEN Tail(rows) ELSE rows

\* row[colIndex], undefined past the end of the row
Cell(row, colIndex) ==
    IF colIndex + 1 <= Len(row) THEN Some(row[colIndex + 1]) ELSE Undefined

\* headers[colIndex] || `Column_${colIndex + 1}`
ColumnName_EmptyKept(headers, colIndex) ==
    LET header == Cell(headers, colIndex)
    IN  IF header = Undefined THEN DefaultColumnName(colIndex)
        ELSE header[1]
ColumnName(headers, colIndex) ==
    LET header == Cell(headers, colIndex)
    IN  IF header = Undefined \/ header[1] = <<>> THEN DefaultColumnName(colIndex)
        ELSE header[1]

\* analyzeColumns lines 225-227
ColumnValues(dataRows, colIndex) ==
    LET CellOrEmpty(row) == IF Cell(row, colIndex) = Undefined THEN <<>>
                            ELSE Cell(row, colIndex)[1]
        NotEmpty(value) == Len(value) > 0
    IN  SelectSeq(Map(CellOrEmpty, dataRows), NotEmpty)

\* analyzeColumns line 233, the test of one row: "true", "false", or "throw"
\* when trim is called on undefined
IsNullCell_Unguarded(row, colIndex) ==
    LET cell == Cell(row, colIndex)
    IN  IF cell = Undefined THEN "throw"
        ELSE IF trim(cell[1]) = <<>> THEN "true" ELSE "false"
IsNullCell(row, colIndex) ==
    LET cell == Cell(row, colIndex)
    IN  IF cell = Undefined \/ cell[1] = <<>> THEN "true"
        ELSE IF trim(cell[1]) = <<>> THEN "true" ELSE "false"

RECURSIVE Nullable(_, _, _)
\* dataRows.some(...): stops at the first row that is null or throws
Nullable(dataRows, colIndex, k) ==
    IF k > Len(dataRows) THEN "false"
    ELSE IF IsNullCell(dataRows[k], colIndex) # "false"
         THEN IsNullCell(dataRows[k], colIndex)
         ELSE Nullable(dataRows, colIndex, k + 1)

\* Array.from(new Set(values)): the first occurrences, in order
Unique(values) ==
    LET first == {k \in 1..Len(values) : \A j \in 1..(k - 1) : values[j] # values[k]}
    IN  [i \in 1..Cardinality(first) |->
            values[CHOOSE k \in first : Cardinality({j \in first : j < k}) = i - 1]]

SampleValueCount == 5

getSampleValues_NoSet(values, count) ==
    SubSeq(values, 1, Min(count, Len(values)))
getSampleValues(values, count) ==
    SubSeq(Unique(values), 1, Min(count, Len(Unique(values))))

\* analyzeColumns line 238: NaN || 0 for a column without a value
AvgLength(values) ==
    IF values = <<>> THEN Num(0)
    ELSE LET L(v) == Num(Len(v)) IN FDiv(FSum(Map(L, values)), Num(Len(values)))

\* analyzeColumns lines 242-248: Undefined when the fields are not written
NumericRange(values, type) ==
    LET IsNumber(v) == parseFloat(v) # Undefined
        Value(v) == parseFloat(v)[1]
        numericValues == Map(Value, SelectSeq(values, IsNumber))
    IN  IF type = "number" /\ Len(numericValues) > 0
        THEN [min |-> Some(FMinOf(numericValues)), max |-> Some(FMaxOf(numericValues))]
        ELSE [min |-> Undefined, max |-> Undefined]

\* the CsvColumn object of analyzeColumns lines 229-239 with min and max
ColumnProfile(name, colIndex, values, type, nullable, range) ==
    LET L(v) == Num(Len(v))
    IN  [name |-> name, index |-> colIndex, type |-> type, nullable |-> nullable,
         uniqueValues |-> Cardinality(Range(values)),
         sampleValues |-> getSampleValues(values, SampleValueCount),
         minLength |-> FMinOf(Map(L, values)),
         maxLength |-> FMaxOf(Map(L, values)),
         avgLength |-> AvgLength(values),
         min |-> range.min, max |-> range.max]

ProfileOfValues(name, colIndex, values, type, nullable) ==
    ColumnProfile(name, colIndex, values, type, nullable, NumericRange(values, type))

\* one turn of the loop of analyzeColumns
AnalyzeColumn(headers, dataRows, colIndex) ==
    ProfileOfValues(ColumnName(headers, colIndex), colIndex,
                    ColumnValues(dataRows, colIndex),
                    inferColumnType(ColumnValues(dataRows, colIndex)),
                    Nullable(dataRows, colIndex, 1) = "true")

\* analyzeColumns: the columns, or the TypeError thrown on the way
analyzeColumns(headers, dataRows, columnCount) ==
    IF \E colIndex \in 0..(columnCount - 1) : Nullable(dataRows, colIndex, 1) = "throw"
    THEN [kind |-> "throw", value |-> "TypeError"]
    ELSE [kind |-> "return",
          value |-> [i \in 1..columnCount |-> AnalyzeColumn(headers, dataRows, i - 1)]]

\* Math.round(x * 100) / 100
RoundToHundredths(x) ==
    LET y == FMul(x, Num(100))
    IN  Frac((2 * y.n + y.d) \div (2 * y.d), 100)

\* the names of the column types, as strings of the program
TypeChars ==
    [string |-> <<"s", "t", "r", "i", "n", "g">>,
     number |-> <<"n", "u", "m", "b", "e", "r">>,
     boolean |-> <<"b", "o", "o", "l", "e", "a", "n">>,
     date |-> <<"d", "a", "t", "e">>,
     email |-> <<"e", "m", "a", "i", "l">>,
     url |-> <<"u", "r", "l">>,
     mixed |-> <<"m", "i", "x", "e", "d">>]

\* statsToOutline lines 370-389: the node of one column
ColumnNode(column) ==
    createNode(column.name, TypeChars[column.type] \o <<" ", "c", "o", "l", "u", "m", "n">>, 2)
        @@ [id |-> generateId(column.name, <<"c", "o", "l", "u", "m", "n">>, Some(column.index)),
            metadata |-> [index |-> column.index, type |-> column.type,
                          nullable |-> column.nullable,
                          uniqueValues |-> column.uniqueValues,
                          sampleValues |-> column.sampleValues,
                          minLength |-> column.minLength,
                          maxLength |-> column.maxLength,
                          avgLength |-> RoundToHundredths(column.avgLength),
                          min |-> column.min, max |-> column.max]]

\* statsToOutline
statsToOutline(columns, maxD) ==
    LET columnsNode ==
            [createNode("Columns", "section", 1) EXCEPT !.children = Some(Map(ColumnNode, columns))]
                @@ [id |-> "csv-columns", metadata |-> [count |-> Len(columns)]]
    IN  filterByDepth(IF Len(columns) > 0 THEN <<columnsNode>> ELSE <<>>, maxD)

----------------------------------------------------------------------------
(* SpecCsv *)

SampleLines ==
    {<<"N", "a", "m", "e", ",", "A", "g", "e">>,
     <<"A", "l", "i", "c", "e", ",", "3", "0">>,
     <<"B", "o", "b", ",", "2", "5">>,
     <<"a", ",", "b", ",", "c">>,
     <<"1", ",", "2", ",", "3">>,
     <<"a", ";", "b">>,
     <<"a">>,
     <<",", "a", "b", "c", "d">>,
     <<"x", ",", "a", "b", "c">>,
     <<",", "A", "g", "e">>,
     <<"x", ",", "3", "0">>,
     <<"a", ",", "b", ";", "c", ";", "d", ";", "e", ";", "f">>,
     <<"a", ",", "b", ";", "c", ";", "d">>,
     <<"\"", "a", ",", "b", "\"", ";", "c">>,
     <<>>,
     <<" ", "1", "e", "1", " ", ",", " ", "I", "d", " ">>,
     <<"a", "|", "b">>,
     <<"a", ":", "b">>,
     <<"a", "\t", "b">>}

RECURSIVE Repeat(_, _)
Repeat(x, k) == IF k = 0 THEN <<>> ELSE <<x>> \o Repeat(x, k - 1)

\* the contents analysed: every content of at most MaxLines sample lines, the
\* long contents whose first lines repeat one sample line, and the two
\* three-line tables of the documentation
CsvContents ==
    SeqsUpTo(SampleLines, MaxLines)
        \cup {Repeat(l1, k) \o <<l2>> : <<l1, l2, k>> \in SampleLines \X SampleLines \X (1..MaxRepeat)}
        \cup {<<<<"a", ",", "b", ",", "c">>, <<"1", ",", "2", ",", "3">>, <<"4", ",", "5", ",", "6">>>>,
              <<<<"N", "a", "m", "e", ",", "A", "g", "e">>, <<"A", "l", "i", "c", "e", ",", "3", "0">>, <<"B", "o", "b", ",", "2", "5">>>>}

CsvInit ==
    /\ csvContent \in CsvContents
    /\ csvPc = "content"
    /\ csvLines = <<>>
    /\ csvDelimiter = ","
    /\ csvRows = <<>>
    /\ csvHasHeader = FALSE
    /\ csvColumnCount = 0
    /\ csvColumns = <<>>
    /\ csvOutcome = Pending
    /\ HierIdle
    /\ RegIdle
    /\ ColIdle
    /\ SlugIdle
    /\ TreeIdle
    /\ LineIdle
    /\ MdIdle
    /\ PgIdle

\* analyzeCsv line 44
SplitLines ==
    /\ csvPc = "content"
    /\ csvLines' = SplitTrimmedLines(csvContent)
    /\ csvPc' = "lines"
    /\ UNCHANGED <<csvContent, csvDelimiter, csvRows, csvHasHeader>>
    /\ UNCHANGED csvResultVars
    /\ UNCHANGED notCsvVars

\* analyzeCsv lines 46-56: no line, the empty statistics
EmptyCsv ==
    /\ csvPc = "lines"
    /\ Len(csvLines) = 0
    /\ csvDelimiter' = ","
    /\ csvHasHeader' = FALSE
    /\ csvPc' = "done"
    /\ UNCHANGED <<csvContent, csvLines, csvRows>>
    /\ UNCHANGED csvResultVars
    /\ UNCHANGED notCsvVars

\* analyzeCsv line 59
DetectDelimiter ==
    /\ csvPc = "lines"
    /\ Len(csvLines) # 0
    /\ csvDelimiter' = detectDelimiter(csvLines)
    /\ csvPc' = "delimiter"
    /\ UNCHANGED <<csvContent, csvLines, csvRows, csvHasHeader>>
    /\ UNCHANGED csvResultVars
    /\ UNCHANGED notCsvVars

\* analyzeCsv line 62
ParseRows ==
    /\ csvPc = "delimiter"
    /\ csvRows' = (LET Parse(line) == parseCsvLine(line, csvDelimiter)
                   IN  Map(Parse, csvLines))
    /\ csvPc' = "rows"
    /\ UNCHANGED <<csvContent, csvLines, csvDelimiter, csvHasHeader>>
    /\ UNCHANGED csvResultVars
    /\ UNCHANGED notCsvVars

\* analyzeCsv line 65
DetectHeader ==
    /\ csvPc = "rows"
    /\ csvHasHeader' = detectHeader(csvRows)
    /\ csvPc' = "header"
    /\ UNCHANGED <<csvContent, csvLines, csvDelimiter, csvRows>>
    /\ UNCHANGED csvResultVars
    /\ UNCHANGED notCsvVars

CsvNext ==
    \/ SplitLines
    \/ EmptyCsv
    \/ DetectDelimiter
    \/ ParseRows
    \/ DetectHeader

----------------------------------------------------------------------------
(* SpecCsvOutline: the whole of CsvGenerator.generate over small tables *)

\* well-formed lines, and lines that are short, long, quoted without a closing
\* quote, or blank
TableLines ==
    {<<"N", "a", "m", "e", ",", "A", "g", "e">>,
     <<"A", "l", "i", "c", "e", ",", "3", "0">>,
     <<"B", "o", "b", ",", "2", "5">>,
     <<"x">>,
     <<"1", ",", "2", ",", "3">>,
     <<"\"", "a", ",", "b">>,
     <<" ">>}

\* longer tables: a header with an empty cell, a header shorter and a header
\* longer than the column count, a column of more distinct values than are
\* sampled, one of them repeated
LongTables ==
    {<<<<",", "A", "g", "e">>, <<"x", ",", "3", "0">>, <<"y", ",", "2", "5">>>>,
     <<<<"N", "a", "m", "e", ",", "A", "g", "e">>, <<"A", "l", "i", "c", "e", ",", "3", "0">>, <<"1", ",", "2", ",", "3">>, <<"1", ",", "2", ",", "3">>, <<"1", ",", "2", ",", "3">>>>,
     <<<<"N", "a", "m", "e", ",", "A", "g", "e">>, <<"A", "l", "i", "c", "e", ",", "3", "0">>, <<"x">>, <<"x">>, <<"x">>>>,
     <<<<"a", ",", "1">>, <<"b", ",", "2">>, <<"a", ",", "1">>, <<"c", ",", "3">>, <<"d", ",", "4">>, <<"e", ",", "5">>, <<"f", ",", "6">>, <<"g", ",", "7">>>>}

TableContents == SeqsUpTo(TableLines, MaxTableLines) \cup LongTables

\* the maxDepth options generate is called with
TableDepthOpts == {Undefined, Some(1)}

TableInit ==
    /\ csvContent \in TableContents
    /\ csvPc = "content"
    /\ csvLines = <<>>
    /\ csvDelimiter = ","
    /\ csvRows = <<>>
    /\ csvHasHeader = FALSE
    /\ csvColumnCount = 0
    /\ csvColumns = <<>>
    /\ csvOutcome = Pending
    /\ HierIdle
    /\ RegIdle
    /\ ColIdle
    /\ SlugIdle
    /\ TreeIdle
    /\ LineIdle
    /\ MdIdle
    /\ PgIdle

\* analyzeCsv line 68
GetColumnCount ==
    /\ csvPc = "header"
    /\ csvColumnCount' = getColumnCount(csvRows)
    /\ csvPc' = "columnCount"
    /\ UNCHANGED <<csvContent, csvLines, csvDelimiter, csvRows, csvHasHeader>>
    /\ UNCHANGED <<csvColumns, csvOutcome>>
    /\ UNCHANGED notCsvVars

\* analyzeCsv lines 71-79; generate is async, so what is thrown under it
\* rejects its promise
AnalyzeColumns ==
    /\ csvPc = "columnCount"
    /\ LET returned == analyzeColumns(Headers(csvRows, csvHasHeader, csvColumnCount),
                                      DataRows(csvRows, csvHasHeader), csvColumnCount)
       IN  IF returned.kind = "throw"
           THEN /\ csvOutcome' = [kind |-> "reject", maxDepth |-> Undefined,
                                  value |-> returned.value]
                /\ csvPc' = "rejected"
                /\ UNCHANGED csvColumns
           ELSE /\ csvColumns' = returned.value
                /\ csvPc' = "columns"
                /\ UNCHANGED csvOutcome
    /\ UNCHANGED <<csvContent, csvLines, csvDelimiter, csvRows, csvHasHeader>>
    /\ UNCHANGED csvColumnCount
    /\ UNCHANGED notCsvVars

\* generate line 40, with the options of the call
StatsToOutline ==
    /\ csvPc \in {"columns", "done"}
    /\ \E maxD \in TableDepthOpts :
           csvOutcome' = [kind |-> "resolve", maxDepth |-> maxD,
                          value |-> statsToOutline(csvColumns, maxD)]
    /\ csvPc' = "resolved"
    /\ UNCHANGED <<csvContent, csvLines, csvDelimiter, csvRows, csvHasHeader>>
    /\ UNCHANGED <<csvColumnCount, csvColumns>>
    /\ UNCHANGED notCsvVars

TableNext ==
    \/ SplitLines
    \/ EmptyCsv
    \/ DetectDelimiter
    \/ ParseRows
    \/ DetectHeader
    \/ GetColumnCount
    \/ AnalyzeColumns
    \/ StatsToOutline

----------------------------------------------------------------------------
(* SpecColumn: the type inference and the statistics of one column *)

SampleValues ==
    {<<"a", "@", "x", ".", "i", "o">>,
     <<"h", "t", "t", "p", ":", "/", "/", "x", ".", "i", "o">>,
     <<"5", "5", "5", "1", "2", "3", "4">>,
     <<"1">>,
     <<"y", "e", "s">>,
     <<"2", ".", "5">>,
     <<"2", "0", "2", "4", "-", "0", "1", "-", "1", "5">>,
     <<"a", "b", "c">>}

\* columns of over 100 values: a run of one value, then a run of another
LongColumns ==
    {Repeat(a, k) \o Repeat(b, m) :
        <<a, b, k, m>> \in {<<"a", "@", "x", ".", "i", "o">>, <<"y", "e", "s">>}
                          \X {<<"a", "b", "c">>, <<"2", ".", "5">>}
                          \X {LongRun - 1, LongRun}
                          \X {TypeSampleSize - LongRun, TypeSampleSize - LongRun + 1}}

ColumnInputs == SeqsUpTo(SampleValues, MaxValues) \cup LongColumns

NumberPool == {Num(-1), Num(1), Num(2), Num(3), Num(4), Frac(5, 2)}

NumberLists == SeqsUpTo(NumberPool, MaxNumbers) \ {<<>>}

ColInit ==
    /\ \/ colPc = "values" /\ colValues \in ColumnInputs /\ colNumbers = <<>>
       \/ colPc = "numbers" /\ colValues = <<>> /\ colNumbers \in NumberLists
    /\ colType = "string"
    /\ colStatistics = NoStatistics
    /\ colMedian = Undefined
    /\ HierIdle
    /\ RegIdle
    /\ CsvIdle
    /\ SlugIdle
    /\ TreeIdle
    /\ LineIdle
    /\ MdIdle
    /\ PgIdle

\* CsvGenerator.analyzeColumns line 232
InferColumnType ==
    /\ colPc = "values"
    /\ colType' = inferColumnType(colValues)
    /\ colPc' = "inferred"
    /\ UNCHANGED <<colValues, colNumbers, colStatistics, colMedian>>
    /\ UNCHANGED notColVars

\* csv.pegjs analyzeColumns line 178
AnalyzeColumnValues ==
    /\ colPc = "values"
    /\ LET analysis == analyzeColumnValues(colValues)
       IN  /\ colType' = analysis.type
           /\ colStatistics' = analysis.statistics
    /\ colPc' = "analyzed"
    /\ UNCHANGED <<colValues, colNumbers, colMedian>>
    /\ UNCHANGED notColVars

\* csv.pegjs line 251
CalculateMedian ==
    /\ colPc = "numbers"
    /\ colMedian' = Some(calculateMedian(colNumbers))
    /\ colPc' = "median"
    /\ UNCHANGED <<colValues, colNumbers, colType, colStatistics>>
    /\ UNCHANGED notColVars

ColNext ==
    \/ InferColumnType
    \/ AnalyzeColumnValues
    \/ CalculateMedian

----------------------------------------------------------------------------
(* SpecSlug: generateId and createAnchor *)

\* upper and lower case, a digit, the underscore, white space, the hyphen
\* and a punctuation mark
TitleChars == {"A", "1", "_", " ", "\t", "-", "!"}

TitleInputs == SeqsUpTo(TitleChars, MaxTitle)

NodeTypes == {<<"h", "e", "a", "d", "i", "n", "g">>, <<"c", "o", "l", "u", "m", "n">>}

\* no line, the index of a first column, a line number of two digits
Lines == {Undefined, Some(0), Some(12)}

SlugInit ==
    /\ slugTitle \in TitleInputs
    /\ slugType \in NodeTypes
    /\ slugLine \in Lines
    /\ slugPc = "arguments"
    /\ slugResult = <<>>
    /\ HierIdle
    /\ RegIdle
    /\ CsvIdle
    /\ ColIdle
    /\ TreeIdle
    /\ LineIdle
    /\ MdIdle
    /\ PgIdle

GenerateId ==
    /\ slugPc = "arguments"
    /\ slugResult' = generateId(slugTitle, slugType, slugLine)
    /\ slugPc' = "id"
    /\ UNCHANGED <<slugTitle, slugType, slugLine>>
    /\ UNCHANGED notSlugVars

CreateAnchor ==
    /\ slugPc = "arguments"
    /\ slugResult' = createAnchor(slugTitle)
    /\ slugPc' = "anchor"
    /\ UNCHANGED <<slugTitle, slugType, slugLine>>
    /\ UNCHANGED notSlugVars

SlugNext ==
    \/ GenerateId
    \/ CreateAnchor

----------------------------------------------------------------------------
(* SpecTree: generate of the generators for tree-structured formats *)

KeyA == <<"a">>
KeyB == <<"b">>

\* values a parser returns: scalars, objects nested three deep, an array of
\* more objects than are shown, an attribute, a null property
DataSamples ==
    {Scalar("string"),
     Scalar("null"),
     ObjectOf(<<>>),
     ObjectOf(<<Entry(KeyA, Scalar("number")), Entry(KeyB, Scalar("null"))>>),
     ObjectOf(<<Entry(KeyA, ObjectOf(<<Entry(KeyB, ObjectOf(<<Entry(KeyA, Scalar("string"))>>))>>))>>),
     ArrayOf(<<ObjectOf(<<Entry(KeyA, Scalar("boolean"))>>), Scalar("number")>>),
     ObjectOf(<<Entry(<<"@", "_", "i", "d">>, Scalar("string")),
                Entry(KeyA, ArrayOf(<<ObjectOf(<<Entry(KeyB, Scalar("string"))>>),
                                      ObjectOf(<<Entry(KeyB, Scalar("string"))>>),
                                      Scalar("null"),
                                      ObjectOf(<<Entry(KeyA, Scalar("string"))>>)>>))>>),
     ObjectOf(<<Entry(KeyB, ArrayOf(<<Scalar("string"), Scalar("null")>>))>>)}

\* messages of the Error a parser throws
ErrorMessages ==
    {<<"U", "n", "e", "x", "p", "e", "c", "t", "e", "d", " ", "e", "n", "d">>,
     <<"b", "a", "d", " ", "t", "a", "g">>,
     <<>>}

\* JSON.parse and yaml.load return any value, XMLParser.parse an object; what
\* they throw is an Error
ParseOutcomes(generator) ==
    {Parsed(data) : data \in {d \in DataSamples : generator = "XmlGenerator" => d.t = "object"}}
        \cup {Thrown(TRUE, message) : message \in ErrorMessages}

TreeInit ==
    /\ treeGenerator \in {"JsonGenerator", "XmlGenerator", "YamlGenerator"}
    /\ treeMaxDepth \in MaxDepthOpts
    /\ treeParsed = NotParsed
    /\ treePc = "called"
    /\ treeOutcome = NotSettled
    /\ HierIdle
    /\ RegIdle
    /\ CsvIdle
    /\ ColIdle
    /\ SlugIdle
    /\ LineIdle
    /\ MdIdle
    /\ PgIdle

JsonGeneratorGenerate ==
    /\ treePc = "called"
    /\ treeGenerator = "JsonGenerator"
    /\ \E parsed \in ParseOutcomes(treeGenerator) :
          /\ treeParsed' = parsed
          /\ treeOutcome' = JsonGenerate(parsed, treeMaxDepth)
    /\ treePc' = "settled"
    /\ UNCHANGED <<treeGenerator, treeMaxDepth>>
    /\ UNCHANGED notTreeVars

XmlGeneratorGenerate ==
    /\ treePc = "called"
    /\ treeGenerator = "XmlGenerator"
    /\ \E parsed \in ParseOutcomes(treeGenerator) :
          /\ treeParsed' = parsed
          /\ treeOutcome' = XmlGenerate(parsed, treeMaxDepth)
    /\ treePc' = "settled"
    /\ UNCHANGED <<treeGenerator, treeMaxDepth>>
    /\ UNCHANGED notTreeVars

YamlGeneratorGenerate ==
    /\ treePc = "called"
    /\ treeGenerator = "YamlGenerator"
    /\ \E parsed \in ParseOutcomes(treeGenerator) :
          /\ treeParsed' = parsed
          /\ treeOutcome' = YamlGenerate(parsed, treeMaxDepth)
    /\ treePc' = "settled"
    /\ UNCHANGED <<treeGenerator, treeMaxDepth>>
    /\ UNCHANGED notTreeVars

TreeNext ==
    \/ JsonGeneratorGenerate
    \/ XmlGeneratorGenerate
    \/ YamlGeneratorGenerate

----------------------------------------------------------------------------
(* SpecParseLine: parseCsvLine on one line *)

\* the quote, two delimiters, a letter and a blank
LineChars == {"\"", ",", ";", "a", " "}

LineInputs == SeqsUpTo(LineChars, MaxLineLength)

LineInit ==
    /\ lineText \in LineInputs
    /\ lineDelimiter \in {",", ";"}
    /\ linePc = "arguments"
    /\ lineFields = <<>>
    /\ HierIdle
    /\ RegIdle
    /\ CsvIdle
    /\ ColIdle
    /\ SlugIdle
    /\ TreeIdle
    /\ MdIdle
    /\ PgIdle

ParseCsvLine ==
    /\ linePc = "arguments"
    /\ lineFields' = parseCsvLine(lineText, lineDelimiter)
    /\ linePc' = "parsed"
    /\ UNCHANGED <<lineText, lineDelimiter>>
    /\ UNCHANGED notLineVars

LineNext ==
    \/ ParseCsvLine

----------------------------------------------------------------------------
(* SpecMarkdown: MarkdownGenerator.generate on a document *)

\* lines of the content after the front matter: blank, headings of level 1
\* and 2, a hash without a space, text, a heading of blanks only
BodyLineInputs ==
    {<<>>, <<"#", " ", "a">>, <<"#", "#", " ", "b">>, <<"#", "a">>, <<"a">>, <<"#", " ", " ">>}

\* content.split('\n') has at least one element
BodyInputs == SeqsUpTo(BodyLineInputs, MaxBodyLines) \ {<<>>}

\* the data of the front matter as its entries: none, and title: Test
FrontmatterInputs == {<<>>, <<[key |-> "title", value |-> "Test"]>>}

MdInit ==
    /\ mdLines \in BodyInputs
    /\ mdFrontmatter \in FrontmatterInputs
    /\ mdOptions \in {MarkdownOptions(d, n) : d \in {Undefined, Some(1)}, n \in BOOLEAN}
    /\ mdPc = "called"
    /\ mdOutline = <<>>
    /\ HierIdle
    /\ RegIdle
    /\ CsvIdle
    /\ ColIdle
    /\ SlugIdle
    /\ TreeIdle
    /\ LineIdle
    /\ PgIdle

GenerateMarkdown ==
    /\ mdPc = "called"
    /\ mdOutline' = generateMarkdown(mdLines, mdFrontmatter, mdOptions)
    /\ mdPc' = "generated"
    /\ UNCHANGED <<mdLines, mdFrontmatter, mdOptions>>
    /\ UNCHANGED notMdVars

MdNext ==
    \/ GenerateMarkdown

----------------------------------------------------------------------------
(* SpecPeggy: generate calls on one FromPeggyGrammarGenerator *)

\* a forest of two levels, as a grammar returns it
GrammarForest ==
    <<[createNode(1, "heading", 1) EXCEPT !.children = Some(<<createNode(2, "heading", 2)>>)]>>

\* what parse can give for a content
PeggyParseOutcomes ==
    {ParseGives("array", GrammarForest), ParseGives("array", <<>>),
     ParseGives("node", <<createNode(1, "heading", 1)>>),
     ParseGives("nodes", GrammarForest), ParseGives("other", <<>>),
     ParseThrows(Undefined), ParseThrows(Some(GrammarForest))}

CompileOutcomes == {Compiles, CompileFails(<<"E">>)}

\* new FromPeggyGrammarGenerator(grammarPath, extensions): parser = null
PgInit ==
    /\ pgParser = Undefined
    /\ pgCompiled = 0
    /\ pgCalls = [c \in 1..MaxCalls |-> NotCalled]
    /\ HierIdle
    /\ RegIdle
    /\ CsvIdle
    /\ ColIdle
    /\ SlugIdle
    /\ TreeIdle
    /\ LineIdle
    /\ MdIdle

\* generate is called: initializeParser runs, then the call waits at its
\* await
PeggyGenerateCalled ==
    \E c \in 1..MaxCalls : \E compile \in CompileOutcomes : \E maxD \in {Undefined, Some(1)} :
        LET init == initializeParser(pgParser, pgCompiled, compile)
        IN  /\ pgCalls[c].pc = "idle"
            /\ pgParser' = init.parser
            /\ pgCompiled' = init.compiled
            /\ pgCalls' = [pgCalls EXCEPT ![c] =
                              PeggyCall("awaiting", init.kind, maxD, @.parsed,
                                        IF init.kind = "throw" THEN Rejected(init.message)
                                        ELSE NotSettled)]
            /\ UNCHANGED notPgVars

\* the call goes on after its await: the rejection of initializeParser
\* rejects it, otherwise the content is parsed
PeggyGenerateResumed ==
    \E c \in 1..MaxCalls : \E parsed \in PeggyParseOutcomes :
        /\ pgCalls[c].pc = "awaiting"
        /\ pgCalls' = [pgCalls EXCEPT ![c] =
                          IF @.init = "throw"
                          THEN PeggyCall("settled", @.init, @.maxDepth, @.parsed, @.settled)
                          ELSE PeggyCall("settled", @.init, @.maxDepth, parsed,
                                         parseContent(parsed, @.maxDepth))]
        /\ UNCHANGED <<pgParser, pgCompiled>>
        /\ UNCHANGED notPgVars

PgNext ==
    \/ PeggyGenerateCalled
    \/ PeggyGenerateResumed

----------------------------------------------------------------------------
(* Specifications: each one runs one component and holds the others still *)

SpecHierarchy == HierInit /\ [][HierNext]_vars

SpecRegistry == RegInit /\ [][RegNext]_vars

SpecCsv == CsvInit /\ [][CsvNext]_vars

SpecColumn == ColInit /\ [][ColNext]_vars

SpecCsvOutline == TableInit /\ [][TableNext]_vars

SpecSlug == SlugInit /\ [][SlugNext]_vars

SpecTree == TreeInit /\ [][TreeNext]_vars

SpecParseLine == LineInit /\ [][LineNext]_vars

SpecMarkdown == MdInit /\ [][MdNext]_vars

SpecPeggy == PgInit /\ [][PgNext]_vars

----------------------------------------------------------------------------
(* Claims about the hierarchy assembler and the depth filter *)

\* the nearest preceding input position with a strictly smaller depth, 0 if none
NearestShallower(input, i) ==
    LET S == {j \in 1..(i - 1) : input[j].depth < input[i].depth}
    IN  IF S = {} THEN 0 ELSE CHOOSE j \in S : \A m \in S : m <= j

\* C1: in the forest OutlineGenerator.buildHierarchy returns, every input
\* node is the child of the nearest preceding input node with a strictly
\* smaller depth, and is top-level exactly when there is no such node;
\* depths [1,2,2,1] give [A{B,C}, D].
C1_NearestShallowerParent ==
    hPc = "built" =>
        /\ \A i \in 1..Len(nodes) :
              LET p == NearestShallower(nodes, i)
              IN  /\ (i \in TopTitles(forest)) <=> (p = 0)
                  /\ {e[1] : e \in {x \in Edges(forest) : x[2] = i}}
                        = (IF p = 0 THEN {} ELSE {p})
        /\ Depths(nodes) = <<1, 2, 2, 1>> =>
              /\ Len(forest) = 2
              /\ forest[1].title = 1 /\ forest[2].title = 4
              /\ Titles(ChildrenOf(forest[1])) = <<2, 3>>
              /\ ChildrenOf(forest[1])[1].children = nodes[2].children
              /\ ChildrenOf(forest[1])[2].children = nodes[3].children
              /\ forest[2].children = nodes[4].children

C1_Witness ==
    /\ hPc = "built"
    /\ Depths(nodes) = <<1, 2, 2, 1>>
    /\ Len(forest) = 2

\* C2: the pre-order traversal of the forest buildHierarchy returns lists
\* exactly the input nodes, each once, in input order.
C2_PreOrderIsInputOrder ==
    hPc = "built" =>
        /\ Len(PreOrder(forest)) = Len(nodes)
        /\ \A k \in 1..Len(nodes) :
              /\ PreOrder(forest)[k].title = k
              /\ PreOrder(forest)[k].depth = nodes[k].depth
              /\ PreOrder(forest)[k].type = nodes[k].type

C2_Witness ==
    /\ hPc = "built"
    /\ Len(forest) >= 2
    /\ \E e1 \in Edges(forest) : \E e2 \in Edges(forest) : e1[2] = e2[1]

\* C3: after filterByDepth(forest, d) with d >= 1, and in the result of
\* MarkdownGenerator.generate with maxDepth = d, every node at every nesting
\* level has depth <= d.
C3_DepthBound ==
    (hPc \in {"filtered", "generated"} /\ ~IsFalsy(maxDepth)) =>
        \A n \in AllNodes(forest) : n.depth <= maxDepth[1]

C3_Witness ==
    /\ hPc = "filtered"
    /\ maxDepth = Some(2)
    /\ \E n \in AllNodes(forestIn) : n.depth > 2
    /\ Edges(forest) # {}

\* C4: after depth filtering with maxDepth = d a node without children has
\* its children field absent, never an empty sequence.
C4_NoEmptyChildrenAfterFilter ==
    (hPc \in {"filtered", "generated"} /\ ~IsFalsy(maxDepth)) =>
        \A n \in AllNodes(forest) : n.children # Some(<<>>)

\* C7: in every forest a hierarchy-assembly routine returns (OutlineGenerator
\* and the Markdown grammar), every child's depth is strictly greater than
\* its parent's depth.
C7_ChildDeeperThanParent ==
    hPc \in {"built", "grammarBuilt"} =>
        \A e \in Edges(forest) : e[4] > e[3]

\* C8: filterByDepth(forest, undefined) returns the input forest unchanged.
C8_IdentityFilter ==
    (hPc = "filtered" /\ maxDepth = Undefined) => forest = forestIn

C8_Witness ==
    /\ hPc = "filtered"
    /\ maxDepth = Undefined
    /\ Len(forestIn) >= 2
    /\ Edges(forestIn) # {}
    /\ forest = forestIn

----------------------------------------------------------------------------
(* Claims about the registry *)

\* C5: generateFromContent with an extension for which no generator is
\* registered fails with the error 'No generator found for file extension:
\* <ext>' whose message contains the extension as passed, gives back no
\* forest and invokes no generator.
C5_UnsupportedExtensionFails ==
    (outcome.op = "generateFromContent"
        /\ lastRegistered[toLowerCase(outcome.ext)] = Undefined) =>
        /\ outcome.kind = "throw"
        /\ outcome.value = NoGeneratorPrefix \o outcome.ext
        /\ Includes(outcome.value, outcome.ext)
        /\ invoked = <<>>

C5_Witness ==
    /\ outcome.op = "generateFromContent"
    /\ lastRegistered[toLowerCase(outcome.ext)] = Undefined
    /\ outcome.ext # toLowerCase(outcome.ext)
    /\ outcome.kind = "throw"

\* C6: once a generator g is registered for an extension, every
\* generateFromContent whose extension equals it up to letter case invokes
\* g.generate exactly once with the same content and options and returns its
\* result, g being the generator most recently registered for the extension.
C6_LatestRegistrationDispatched ==
    (outcome.op = "generateFromContent"
        /\ lastRegistered[toLowerCase(outcome.ext)] # Undefined) =>
        LET g == lastRegistered[toLowerCase(outcome.ext)][1]
            o == IF outcome.options = Undefined THEN EmptyOptions
                 ELSE outcome.options[1]
        IN  /\ Len(invoked) = 1
            /\ invoked[1].generator = g
            /\ invoked[1].content = outcome.content
            /\ invoked[1].options = o
            /\ outcome.kind = "return"
            /\ outcome.value = invoked[1]

C6_Witness ==
    /\ outcome.op = "generateFromContent"
    /\ outcome.ext # toLowerCase(outcome.ext)
    /\ outcome.options # Undefined
    /\ Len(invoked) = 1
    /\ invoked[1].generator = "customGenerator2"
    /\ outcome.kind = "return"

----------------------------------------------------------------------------
(* Claims about the tabular inference *)

ClaimedOrder == <<",", ";", "\t", "|", ":">>

\* the field counts of the first at most 10 lines under candidate i
ClaimedCounts(lines, i) ==
    [k \in 1..(IF Len(lines) < 10 THEN Len(lines) ELSE 10) |->
        Len(parseCsvLine(lines[k], ClaimedOrder[i]))]

RECURSIVE SumOver(_, _)
\* the sum of f[k] for k in 1..n
SumOver(f, n) == IF n = 0 THEN 0 ELSE f[n] + SumOver(f, n - 1)

\* consistency x reasonableness x mean as the fraction <<numerator, denominator>>:
\* with m counts of sum S and Q the sum of (m * count - S)^2, the variance is
\* Q / m^3 and the score r * S * m^2 / (m^3 + Q), r being 1 or 1/2
ScoreOfSums(m, S, Q) ==
    IF S > m
    THEN <<(IF 2 * m <= S /\ S <= 50 * m THEN 2 ELSE 1) * S * m * m,
           2 * (m * m * m + Q)>>
    ELSE <<0, 1>>

SquaredDeviations(c, m, S) ==
    SumOver([k \in 1..m |-> (m * c[k] - S) * (m * c[k] - S)], m)

ScoreOfMean(c, m, S) == ScoreOfSums(m, S, SquaredDeviations(c, m, S))

ScoreOfCounts(c) == ScoreOfMean(c, Len(c), SumOver(c, Len(c)))

ClaimedScore(lines, i) == ScoreOfCounts(ClaimedCounts(lines, i))

ScoreLess(a, b) == a[1] * b[2] < b[1] * a[2]

\* the earliest candidate of the highest score, ',' when every score is 0
FirstBest(sc) ==
    IF \A i \in 1..5 : sc[i][1] = 0 THEN ","
    ELSE ClaimedOrder[CHOOSE i \in 1..5 :
             /\ \A j \in 1..5 : ~ScoreLess(sc[i], sc[j])
             /\ \A j \in 1..(i - 1) : ScoreLess(sc[j], sc[i])]

ClaimedDelimiter(lines) == FirstBest([i \in 1..5 |-> ClaimedScore(lines, i)])

\* C9: detectDelimiter scores each candidate, in the order , ; TAB | :, over
\* the first at most 10 lines as consistency x reasonableness x mean and
\* returns the candidate of the highest score, the earliest one on ties, and
\* ',' when every score is 0; a,b,c / 1,2,3 / 4,5,6 gives ','.
C9_DelimiterIsFirstBestScore ==
    csvPc = "delimiter" =>
        /\ csvDelimiter = ClaimedDelimiter(csvLines)
        /\ csvLines = <<<<"a", ",", "b", ",", "c">>, <<"1", ",", "2", ",", "3">>, <<"4", ",", "5", ",", "6">>>> => csvDelimiter = ","

C9_Witness ==
    /\ csvPc = "delimiter"
    /\ Len(csvLines) > 1
    /\ \E i \in 1..5 : \E j \in (i + 1)..5 :
          LET si == ClaimedScore(csvLines, i)
              sj == ClaimedScore(csvLines, j)
          IN  /\ si[1] > 0
              /\ ~ScoreLess(si, sj) /\ ~ScoreLess(sj, si)
              /\ ClaimedCounts(csvLines, i) # ClaimedCounts(csvLines, j)
              /\ csvDelimiter = ClaimedOrder[i]

\* the three additions of the header heuristic for one pair of cells
ClaimedCellScore(cell0, cell1) ==
      (IF NumberIsNaN(cell0) /\ ~NumberIsNaN(cell1) THEN 2 ELSE 0)
    + (IF Len(cell0) > Len(cell1) /\ Len(cell0) > 3 THEN 1 ELSE 0)
    + (IF HasLetter(cell0) /\ ~HasLetter(cell1) THEN 1 ELSE 0)

\* C10 as stated: false with fewer than 2 rows; otherwise rows 0 and 1 are
\* compared cell by cell up to their shared column count with +2 / +1 / +1,
\* and the header is present iff the score is strictly positive.
C10_HeaderIffSharedScorePositive ==
    csvPc = "header" =>
        (csvHasHeader <=>
            /\ Len(csvRows) >= 2
            /\ LET shared == IF Len(csvRows[1]) < Len(csvRows[2])
                             THEN Len(csvRows[1]) ELSE Len(csvRows[2])
               IN  SumOver([i \in 1..shared |->
                       ClaimedCellScore(csvRows[1][i], csvRows[2][i])], shared) > 0)

\* C10 amended: false with fewer than 2 rows and when rows 0 and 1 differ in
\* length; otherwise every column adds +2 / +1 / +1 as stated and -2 when the
\* cell of row 0 is empty, and the header is present iff the score is
\* strictly positive; Name,Age over Alice,30 is a header.
C10_HeaderIffEqualLengthScorePositive ==
    csvPc = "header" =>
        /\ csvHasHeader <=>
            /\ Len(csvRows) >= 2
            /\ Len(csvRows[1]) = Len(csvRows[2])
            /\ SumOver([i \in 1..Len(csvRows[1]) |->
                   ClaimedCellScore(csvRows[1][i], csvRows[2][i])
                       - (IF csvRows[1][i] = <<>> THEN 2 ELSE 0)], Len(csvRows[1])) > 0
        /\ (Len(csvRows) >= 2
              /\ csvRows[1] = <<<<"N", "a", "m", "e">>, <<"A", "g", "e">>>>
              /\ csvRows[2] = <<<<"A", "l", "i", "c", "e">>, <<"3", "0">>>>) => csvHasHeader

C10_Witness ==
    /\ csvPc = "header"
    /\ csvHasHeader
    /\ Len(csvRows[1]) = Len(csvRows[2])
    /\ \E i \in 1..Len(csvRows[1]) : csvRows[1][i] = <<>>

----------------------------------------------------------------------------
(* Column type inference: C11, C12; calculateMedian: C15 *)

\* the number of values of the sample that pass Test
HitCount(Test(_), sample) == Cardinality({k \in 1..Len(sample) : Test(sample[k])})

\* /^\+?[1-9]?[0-9]{7,15}$/ once blanks, hyphens and parentheses are removed
ClaimedIsPhone(value) ==
    LET Kept(c) == c \notin Whitespace \cup {"-", "(", ")"}
        s == SelectSeq(value, Kept)
        ds == IF s # <<>> /\ s[1] = "+" THEN Tail(s) ELSE s
    IN  /\ Range(ds) \subseteq Digits
        /\ \/ 7 <= Len(ds) /\ Len(ds) <= 15
           \/ Len(ds) = 16 /\ ds[1] # "0"

ClaimedIsBoolean(value) == toLowerCase(trim(value)) \in BooleanWords

ClaimedIsDate(value) ==
    IF colPc = "analyzed" THEN grammarIsDate(trim(value)) ELSE isDate(value)

\* the hit counts of the six patterns, in the claimed priority order
ClaimedHitCounts(sample) ==
    <<HitCount(isEmail, sample), HitCount(isUrl, sample),
      HitCount(ClaimedIsPhone, sample), HitCount(ClaimedIsBoolean, sample),
      HitCount(IsNumericValue, sample), HitCount(ClaimedIsDate, sample)>>

ClaimedPriority == <<"email", "url", "phone", "boolean", "number", "date">>

\* hits / total >= 0.80
ClaimedReaches(hits, total) == 5 * hits >= 4 * total

\* the positions of the priority order whose pattern reaches the threshold
ReachingPositions(counts, total) ==
    {i \in 1..Len(counts) : ClaimedReaches(counts[i], total)}

FirstOf(positions) == CHOOSE i \in positions : \A j \in positions : i <= j

ColumnSample == SubSeq(colValues, 1, Min(100, Len(colValues)))

\* C11: over the first at most 100 values of a column, the column gets the
\* first type, in the order email, url, phone, boolean, number, date, whose
\* hit count divided by the sample size is at least 0.80
C11_FirstTypeReachingThreshold ==
    (colPc \in {"inferred", "analyzed"} /\ colValues # <<>>) =>
        LET reaching == ReachingPositions(ClaimedHitCounts(ColumnSample), Len(ColumnSample))
        IN  reaching # {} => colType = ClaimedPriority[FirstOf(reaching)]

\* the hit counts of the patterns that CsvGenerator.inferColumnType counts
CsvHitCounts(sample) ==
    <<HitCount(isEmail, sample), HitCount(isUrl, sample),
      HitCount(ClaimedIsBoolean, sample), HitCount(IsNumericValue, sample),
      HitCount(isDate, sample)>>

\* the hit counts of the patterns that analyzeColumnValues counts
GrammarHitCounts(trimmed) ==
    <<HitCount(grammarIsEmail, trimmed), HitCount(grammarIsUrl, trimmed),
      HitCount(grammarIsPhone, trimmed), HitCount(grammarIsBoolean, trimmed),
      HitCount(grammarIsNumeric, trimmed), HitCount(grammarIsDate, trimmed)>>

\* the counts of the inference that ran: of inferColumnType or of
\* analyzeColumnValues
CountsOfRun ==
    IF colPc = "analyzed" THEN GrammarHitCounts(Map(trim, ColumnSample))
    ELSE CsvHitCounts(ColumnSample)

\* 'mixed' when more than one pattern has a hit, 'string' otherwise
ClaimedFallback(counts) ==
    IF Cardinality({i \in 1..Len(counts) : counts[i] > 0}) > 1
    THEN "mixed" ELSE "string"

KthSmallest(list, k) ==
    CHOOSE x \in Range(list) :
        /\ Cardinality({i \in 1..Len(list) : FLt(list[i], x)}) < k
        /\ Cardinality({i \in 1..Len(list) : FLe(list[i], x)}) >= k

\* C15: calculateMedian returns the middle element of the ascending order
\* for an odd count and the average of the two middle elements for an even
\* count, whatever the order of the input
C15_MedianIsMiddleOfSorted ==
    colPc = "median" =>
        LET n == Len(colNumbers)
        IN  colMedian = Some(IF n % 2 = 1
                             THEN KthSmallest(colNumbers, (n + 1) \div 2)
                             ELSE FDiv(FAdd(KthSmallest(colNumbers, n \div 2),
                                            KthSmallest(colNumbers, n \div 2 + 1)),
                                       Num(2)))

\* [4, 1, 3, 2], not in ascending order, gave 2.5
C15_Witness ==
    /\ colPc = "median"
    /\ colNumbers = <<Num(4), Num(1), Num(3), Num(2)>>
    /\ colMedian = Some(Frac(5, 2))

----------------------------------------------------------------------------
(* Claims about CsvGenerator.generate: C13, C14, C18 *)

\* how many rows have the length len
RowsOfLength(rows, len) == Cardinality({k \in 1..Len(rows) : Len(rows[k]) = len})

\* the highest number of rows of one length
HighestFrequency(rows) ==
    CHOOSE f \in 1..Len(rows) :
        /\ \E k \in 1..Len(rows) : RowsOfLength(rows, Len(rows[k])) = f
        /\ \A k \in 1..Len(rows) : RowsOfLength(rows, Len(rows[k])) <= f

\* C13: getColumnCount returns the most frequent row length among all parsed
\* rows and, when several lengths share the highest frequency, the one that
\* is encountered first in row order.
C13_ModalRowLengthFirstOnTies ==
    csvPc = "columnCount" =>
        LET modal == {k \in 1..Len(csvRows) :
                         RowsOfLength(csvRows, Len(csvRows[k])) = HighestFrequency(csvRows)}
            first == CHOOSE k \in modal : \A j \in modal : k <= j
        IN  csvColumnCount = Len(csvRows[first])

\* two lengths share the highest frequency, and a majority length exists in
\* another table: here the tie, with the later length the smaller one
C13_Witness ==
    /\ csvPc = "columnCount"
    /\ Len(csvRows) >= 2
    /\ \E j, k \in 1..Len(csvRows) :
          /\ j < k
          /\ Len(csvRows[j]) > Len(csvRows[k])
          /\ RowsOfLength(csvRows, Len(csvRows[j])) = HighestFrequency(csvRows)
          /\ RowsOfLength(csvRows, Len(csvRows[k])) = HighestFrequency(csvRows)
          /\ csvColumnCount = Len(csvRows[j])

ScenarioTable ==
    <<<<"N", "a", "m", "e", ",", "A", "g", "e">>,
      <<"A", "l", "i", "c", "e", ",", "3", "0">>,
      <<"B", "o", "b", ",", "2", "5">>>>

\* C14: analysing Name,Age / Alice,30 / Bob,25 gives hasHeader = true and a
\* column named 'Age' whose profile has type number, min 25, max 30, avg 27.5
\* and median 27.5.
C14_ScenarioAgeProfile ==
    (csvPc = "columns" /\ csvContent = ScenarioTable) =>
        /\ csvHasHeader
        /\ \E i \in 1..Len(csvColumns) :
              /\ csvColumns[i].name = <<"A", "g", "e">>
              /\ csvColumns[i].type = "number"
              /\ csvColumns[i].min = Some(Num(25))
              /\ csvColumns[i].max = Some(Num(30))
              /\ "avg" \in DOMAIN csvColumns[i]
              /\ csvColumns[i].avg = Frac(55, 2)
              /\ "median" \in DOMAIN csvColumns[i]
              /\ csvColumns[i].median = Frac(55, 2)

----------------------------------------------------------------------------
(* Claims about generateId and createAnchor: C16, C17 *)

\* the slug of the claim: lower case, every character outside [a-z0-9]
\* replaced by '-'
ClaimedSlug(title) ==
    LET Slug(c) == IF ToLowerChar(c) \in Range(LowerCaseLetters) \cup Digits
                   THEN ToLowerChar(c) ELSE "-"
    IN  Map(Slug, title)

\* C16: generateId(title, type, line) equals type + '-' + slug(title),
\* followed by '-' + line whenever a line number is supplied, also for the
\* index 0 that CsvGenerator passes for its first column.
C16_IdIsTypeSlugLine ==
    slugPc = "id" =>
        slugResult = slugType \o <<"-">> \o ClaimedSlug(slugTitle)
                        \o (IF slugLine = Undefined THEN <<>>
                            ELSE <<"-">> \o NumberToString(slugLine[1]))

\* C17: createAnchor(title) is lower-case, contains only word characters and
\* hyphens, has no two adjacent hyphens, neither starts nor ends with a
\* hyphen, and is the same whatever the type and the line.
C17_AnchorIsCleanSlug ==
    slugPc = "anchor" =>
        /\ \A k \in 1..Len(slugResult) :
              slugResult[k] \in Range(LowerCaseLetters) \cup Digits \cup {"_", "-"}
        /\ \A k \in 1..(Len(slugResult) - 1) :
              ~(slugResult[k] = "-" /\ slugResult[k + 1] = "-")
        /\ slugResult # <<>> => (Head(slugResult) # "-" /\ Last(slugResult) # "-")
        /\ slugResult = createAnchor(slugTitle)

\* a title with an upper-case letter, followed by a hyphen and white space
\* that meet: the two hyphens are collapsed and the one left is trimmed
C17_Witness ==
    /\ slugPc = "anchor"
    /\ slugTitle = <<"A", "-", " ">>
    /\ slugLine # Undefined
    /\ slugResult = <<"a">>

----------------------------------------------------------------------------
(* Claims about the error channel of generateFromContent: C20 *)

\* C20: generateFromContent reports an unsupported extension as a rejected
\* promise, not by throwing synchronously to its caller.
C20_UnsupportedExtensionRejects ==
    (outcome.op = "generateFromContent"
        /\ lastRegistered[toLowerCase(outcome.ext)] = Undefined) =>
        outcome.kind # "throw"

----------------------------------------------------------------------------
(* Claims about the generators for tree-structured formats: C19 *)

\* C19: when the parse of the whole document fails, generate of
\* JsonGenerator, XmlGenerator and YamlGenerator rejects with an error whose
\* message contains the parser's error text, and returns no forest.
C19_ParseFailureRejects ==
    (treePc = "settled" /\ treeParsed.kind = "thrown") =>
        /\ treeOutcome.kind = "reject"
        /\ Includes(treeOutcome.message, treeParsed.message)
        /\ treeOutcome.forest = Undefined

\* the XML parser throws an Error with a text: the promise is rejected with
\* 'Invalid XML: ' and that text
C19_Witness ==
    /\ treePc = "settled"
    /\ treeGenerator = "XmlGenerator"
    /\ treeParsed.kind = "thrown"
    /\ treeParsed.message = <<"b", "a", "d", " ", "t", "a", "g">>
    /\ treeOutcome.kind = "reject"
    /\ Len(treeOutcome.message) = 13 + 7

----------------------------------------------------------------------------
(* Claims about the column profiles: C22, C23 *)

\* the data rows and, of column i, the cells that are there and not empty
ClaimedDataRows == IF csvHasHeader THEN Tail(csvRows) ELSE csvRows

ClaimedValues(i) ==
    LET rows == ClaimedDataRows
        present == {k \in 1..Len(rows) : i <= Len(rows[k]) /\ rows[k][i] # <<>>}
    IN  [j \in 1..Cardinality(present) |->
            rows[CHOOSE k \in present : Cardinality({m \in present : m < k}) = j - 1][i]]

\* where a value of a list occurs first
FirstAt(list, v) == CHOOSE k \in 1..Len(list) : list[k] = v /\ \A j \in 1..(k - 1) : list[j] # v

\* C22: sampleValues of every column profile holds at most 5 values, no
\* duplicates, the column's distinct non-empty values in the order of their
\* first occurrence in the data rows, and min(5, uniqueValues) of them.
C22_SampleValuesFirstSeenDistinct ==
    csvPc = "columns" =>
        \A i \in 1..Len(csvColumns) :
            LET sample == csvColumns[i].sampleValues
                list == ClaimedValues(i)
            IN  /\ Len(sample) <= 5
                /\ \A j, k \in 1..Len(sample) : j # k => sample[j] # sample[k]
                /\ csvColumns[i].uniqueValues = Cardinality(Range(list))
                /\ Len(sample) = Min(5, csvColumns[i].uniqueValues)
                /\ \A j \in 1..Len(sample) :
                      /\ sample[j] \in Range(list)
                      /\ Cardinality({v \in Range(list) :
                             FirstAt(list, v) < FirstAt(list, sample[j])}) = j - 1

\* a column of more than 5 distinct values whose second value comes back
\* before the fifth distinct one
C22_Witness ==
    /\ csvPc = "columns"
    /\ \E i \in 1..Len(csvColumns) :
          /\ csvColumns[i].uniqueValues > 5
          /\ Len(csvColumns[i].sampleValues) = 5
          /\ \E j, k \in 1..4 : j < k /\ ClaimedValues(i)[j] = ClaimedValues(i)[k]

\* 'Column_' + (i + 1) for the column of index i
ClaimedDefaultName(i) == <<"C", "o", "l", "u", "m", "n", "_">> \o NumberToString(i + 1)

\* C23: the profile has exactly columnCount columns; with a header, column i
\* is named by the i-th cell of the header row, 'Column_' + (i + 1) standing
\* in for a cell that is missing or empty; without a header every column i is
\* named 'Column_' + (i + 1).
C23_ColumnNames ==
    csvPc = "columns" =>
        /\ Len(csvColumns) = csvColumnCount
        /\ \A i \in 0..(Len(csvColumns) - 1) :
              /\ csvColumns[i + 1].index = i
              /\ csvColumns[i + 1].name =
                    (IF csvHasHeader /\ i + 1 <= Len(csvRows[1]) /\ csvRows[1][i + 1] # <<>>
                     THEN csvRows[1][i + 1]
                     ELSE ClaimedDefaultName(i))

\* a header row shorter than the column count: its cells name the first
\* columns, the last column gets the synthetic name
C23_Witness ==
    /\ csvPc = "columns"
    /\ csvHasHeader
    /\ Len(csvRows[1]) < csvColumnCount
    /\ csvColumns[1].name = csvRows[1][1]
    /\ csvColumns[csvColumnCount].name = ClaimedDefaultName(csvColumnCount - 1)

----------------------------------------------------------------------------
(* Claims about parseCsvLine: C25 *)

RECURSIVE QuoteRoles(_, _, _)
\* what each character of a line is, from position i on, inside telling
\* whether a quoted region is open there: "open" and "close" for the quotes
\* of a region, "literal" and "second" for a doubled quote inside a region,
\* "text" for any other character inside a region, "plain" outside
QuoteRoles(line, i, inside) ==
    IF i > Len(line) THEN <<>>
    ELSE IF line[i] # "\"" THEN <<IF inside THEN "text" ELSE "plain">> \o QuoteRoles(line, i + 1, inside)
    ELSE IF ~inside THEN <<"open">> \o QuoteRoles(line, i + 1, TRUE)
    ELSE IF i < Len(line) /\ line[i + 1] = "\""
         THEN <<"literal", "second">> \o QuoteRoles(line, i + 2, TRUE)
         ELSE <<"close">> \o QuoteRoles(line, i + 1, FALSE)

\* the positions of the delimiters outside the quoted regions
SplitPositions(line, delimiter) ==
    {i \in 1..Len(line) : line[i] = delimiter /\ QuoteRoles(line, 1, FALSE)[i] = "plain"}

\* the text of the line between two positions, the quotes of the regions
\* and the second quote of a doubled one left out
FieldText(line, from, to) ==
    LET roles == QuoteRoles(line, 1, FALSE)
        kept == {i \in from..to : roles[i] \in {"text", "plain", "literal"}}
    IN  [j \in 1..Cardinality(kept) |->
            line[CHOOSE i \in kept : Cardinality({m \in kept : m < i}) = j - 1]]

\* C25: parseCsvLine returns 1 + (number of delimiters outside the quoted
\* regions) fields; a delimiter inside a region does not split, a doubled
\* quote inside a region gives one quote character and leaves the region
\* open, and the quotes that open or close a region are not in the field.
\* Each field is that text with the white space at its ends removed.
C25_FieldsSplitOutsideQuotes ==
    linePc = "parsed" =>
        LET splits == SplitPositions(lineText, lineDelimiter)
            Bound(k) == IF k = 0 THEN 0
                        ELSE IF k > Cardinality(splits) THEN Len(lineText) + 1
                        ELSE CHOOSE i \in splits : Cardinality({m \in splits : m < i}) = k - 1
        IN  /\ Len(lineFields) = 1 + Cardinality(splits)
            /\ \A k \in 1..Len(lineFields) :
                  lineFields[k] = trim(FieldText(lineText, Bound(k - 1) + 1, Bound(k) - 1))

\* a region holding a doubled quote and a delimiter
C25_Witness ==
    /\ linePc = "parsed"
    /\ lineText = <<"\"", "\"", "\"", ",", "\"">>
    /\ lineDelimiter = ","
    /\ lineFields = <<<<"\"", ",">>>>

----------------------------------------------------------------------------
(* Claims about the grammar's buildHierarchy: C24 *)

\* the items of the flat list that are headings
IsHeading(n) == n.type = "heading"

\* <<parent title, child title>> of every edge of a forest
ParentChild(f) == {<<e[1], e[2]>> : e \in Edges(f)}

\* the position of the last heading before position k of the flat list, 0
\* when there is none
LastHeadingBefore(k) ==
    LET before == {j \in 1..(k - 1) : IsHeading(nodes[j])}
    IN  IF before = {} THEN 0 ELSE CHOOSE j \in before : \A m \in before : m <= j

\* C24: in the grammar's buildHierarchy only headings become parents; an
\* item that is not a heading is appended to the children of the heading
\* on top of the stack, which is the last heading before it, or to the top
\* level when there is none, and the headings nest as if the other items
\* were not there (nothing is popped for them).
C24_OnlyHeadingsNest ==
    hPc = "grammarBuilt" =>
        LET edges == ParentChild(forest)
            headingsOnly == buildHierarchy(SelectSeq(nodes, IsHeading))
            InOrder(list) == \A i, j \in 1..Len(list) : i < j => list[i].title < list[j].title
        IN  /\ \A e \in edges : IsHeading(nodes[e[1]])
            /\ \A k \in 1..Len(nodes) :
                  ~IsHeading(nodes[k]) =>
                      IF LastHeadingBefore(k) = 0
                      THEN k \in TopTitles(forest) /\ \A e \in edges : e[2] # k
                      ELSE <<LastHeadingBefore(k), k>> \in edges /\ k \notin TopTitles(forest)
            /\ {e \in edges : IsHeading(nodes[e[2]])} = ParentChild(headingsOnly)
            /\ {t \in TopTitles(forest) : IsHeading(nodes[t])} = TopTitles(headingsOnly)
            /\ InOrder(forest)
            /\ \A n \in AllNodes(forest) : InOrder(ChildrenOf(n))
            /\ Len(PreOrder(forest)) = Len(nodes)

\* a paragraph of depth 1 under a heading of depth 2, followed by a heading
\* of depth 3 that nests under the same heading
C24_Witness ==
    /\ hPc = "grammarBuilt"
    /\ Len(nodes) = 3
    /\ nodes[1].type = "heading" /\ nodes[1].depth = 2
    /\ nodes[2].type = "paragraph" /\ nodes[2].depth = 1
    /\ nodes[3].type = "heading" /\ nodes[3].depth = 3
    /\ ParentChild(forest) = {<<1, 2>>, <<1, 3>>}

----------------------------------------------------------------------------
(* Claims about filtering and assembling: C29 *)

\* the nodes of a forest in order, without their children
NodesInOrder(f) ==
    LET Bare(n) == [title |-> n.title, type |-> n.type, depth |-> n.depth]
    IN  Map(Bare, PreOrder(f))

----------------------------------------------------------------------------
(* Claims about the registry as a whole: C26, C27, C28 *)

\* the extensions registerDefaultGenerators registers
DefaultExtensions ==
    {DefaultRegistrations(FALSE)[i][1] : i \in 1..Len(DefaultRegistrations(FALSE))}

\* C26: generateFromContent leaves the registry as it was (this.generators
\* holds the supported extensions and the generator of each), whether it
\* returns or throws; the registry changes only in registerGenerator,
\* registerPeggyGenerator and setPeggyGenerators.
C26_GenerateLeavesRegistry ==
    [][/\ outcome'.op = "generateFromContent" =>
              /\ generators' = generators
              /\ usePeggyGenerators' = usePeggyGenerators
       /\ generators' # generators =>
              outcome'.op \in {"registerGenerator", "registerPeggyGenerator", "setPeggyGenerators"}]_vars

\* a failed and a successful call on a registry that registrations changed
C26_Witness ==
    /\ outcome.op = "generateFromContent"
    /\ outcome.kind = "throw"
    /\ outcome.ext = <<"X", "Y", "Z">>
    /\ MapGet(generators, <<"m", "d">>) = Some("customGenerator1")
    /\ MapGet(generators, <<"c", "s", "v">>) = Some("FromPeggyGrammarGenerator")
    /\ usePeggyGenerators

\* extensions asked about: the ones the callers pass, a default one as
\* registered and in capitals, and one never registered
ProbeExtensions ==
    ExtensionInputs \cup {<<"c", "p", "p">>, <<"J", "S", "O", "N">>, <<"p", "e", "g">>}

\* the call raises the error of line 202
RaisesNoGenerator(m, e) ==
    LET r == generateFromContent(m, "test", e, Undefined)
    IN  r.kind = "throw" /\ r.value = NoGeneratorMessage(e)

\* C27: after any sequence of registrations every key of the registry is
\* in lower case, every default extension is supported, and for every
\* extension e these agree: isSupported(e), lowercase(e) being listed by
\* getSupportedExtensions(), and generateFromContent with e not raising the
\* no-generator error.
C27_RegistryConsistent ==
    /\ \A i \in 1..Len(generators) : generators[i].key = toLowerCase(generators[i].key)
    /\ \A e \in DefaultExtensions : isSupported(generators, e)
    /\ \A e \in ProbeExtensions :
          /\ isSupported(generators, e)
                <=> toLowerCase(e) \in Range(getSupportedExtensions(generators))
          /\ isSupported(generators, e) <=> ~RaisesNoGenerator(generators, e)

\* isSupported('XYZ') answered true after a registration and a
\* setPeggyGenerators
C27_Witness ==
    /\ outcome.op = "isSupported"
    /\ outcome.ext = <<"X", "Y", "Z">>
    /\ outcome.value = TRUE
    /\ usePeggyGenerators
    /\ MapGet(generators, <<"x", "y", "z">>) = Some("customGenerator2")
    /\ ~RaisesNoGenerator(generators, <<"X", "Y", "Z">>)

\* the classes that extend FromPeggyGrammarGenerator (PeggyGenerators.ts)
GrammarBased == {"PeggyMarkdownGenerator", "PeggyCsvGenerator", "FromPeggyGrammarGenerator"}

\* C28: setPeggyGenerators(b) registers every default extension again: each
\* maps to its default generator afterwards whatever was registered for it,
\* every other extension keeps its generator, no extension is added or
\* removed besides, and 'md', 'markdown' and 'csv' map to grammar-based
\* generators exactly when b is true.
C28_SetPeggyReregistersDefaults ==
    [][outcome'.op = "setPeggyGenerators" =>
          LET regs == DefaultRegistrations(usePeggyGenerators')
          IN  /\ \A i \in 1..Len(regs) : MapGet(generators', regs[i][1]) = Some(regs[i][2])
              /\ \A k \in RegistryKeys \ DefaultExtensions :
                    MapGet(generators', k) = MapGet(generators, k)
              /\ Range(MapKeys(generators')) = Range(MapKeys(generators)) \cup DefaultExtensions
              /\ \A k \in {<<"m", "d">>, <<"m", "a", "r", "k", "d", "o", "w", "n">>, <<"c", "s", "v">>} :
                    MapGet(generators', k)[1] \in GrammarBased <=> usePeggyGenerators']_vars

\* after setPeggyGenerators(true): the default generators are the
\* grammar-based ones and a custom extension is still there
C28_Witness ==
    /\ outcome.op = "setPeggyGenerators"
    /\ usePeggyGenerators
    /\ MapGet(generators, <<"m", "d">>) = Some("PeggyMarkdownGenerator")
    /\ MapGet(generators, <<"c", "s", "v">>) = Some("PeggyCsvGenerator")
    /\ MapGet(generators, <<"x", "y", "z">>) = Some("customGenerator1")

----------------------------------------------------------------------------
(* Claims about the front matter of a Markdown document: C21 *)

\* C21: when the document has a non-empty front matter and its body has a
\* heading, the first node of the outline carries the parsed front matter
\* in metadata.frontmatter, wherever the first heading sits in the body.
C21_FirstNodeCarriesFrontmatter ==
    (mdPc = "generated" /\ Len(mdFrontmatter) > 0 /\ mdOutline # <<>>) =>
        mdOutline[1].metadata.frontmatter = Some(mdFrontmatter)

----------------------------------------------------------------------------
(* Claims about the lazy initialization of the grammar parser: C30 *)

\* the message starts with 'Failed to initialize Peggy parser'
IsFailedToInitialize(message) ==
    /\ Len(message) >= Len(FailedToInitializePrefix)
    /\ SubSeq(message, 1, Len(FailedToInitializePrefix)) = FailedToInitializePrefix

\* C30: over every interleaving of generate calls on one instance the
\* grammar is compiled successfully at most once: once
\* getParserInfo().initialized is true it stays true and the parser is the
\* same object from then on; a call whose compilation fails leaves the
\* instance uninitialized and rejects with 'Failed to initialize Peggy
\* parser'; a call whose parse throws resolves, with the empty forest or
\* with the partial result of the error.
C30_ParserBuiltAtMostOnce ==
    [][/\ pgCompiled' <= 1
       /\ getParserInfo(pgParser).initialized =>
              getParserInfo(pgParser').initialized /\ pgParser' = pgParser /\ pgCompiled' = pgCompiled
       /\ \A c \in 1..MaxCalls :
              /\ (pgCalls[c].pc = "idle" /\ pgCalls'[c].pc = "awaiting" /\ pgCalls'[c].init = "throw") =>
                     /\ ~getParserInfo(pgParser').initialized
                     /\ pgCompiled' = pgCompiled
              /\ (pgCalls[c].pc = "awaiting" /\ pgCalls'[c].pc = "settled") =>
                     IF pgCalls[c].init = "throw"
                     THEN /\ pgCalls'[c].settled.kind = "reject"
                          /\ IsFailedToInitialize(pgCalls'[c].settled.message)
                     ELSE /\ pgCalls'[c].settled.kind = "resolve"
                          /\ pgCalls'[c].parsed.kind = "throw" =>
                                 pgCalls'[c].settled.forest \in
                                     {Some(<<>>), pgCalls'[c].parsed.partial}]_vars

\* one call rejected for a failed compilation, a later one that compiled
\* and resolved with the empty forest on a parse error, and a third one
\* waiting on the same parser
C30_Witness ==
    /\ pgCalls[1].pc = "settled" /\ pgCalls[1].settled.kind = "reject"
    /\ pgCalls[2].pc = "settled" /\ pgCalls[2].parsed = ParseThrows(Undefined)
    /\ pgCalls[2].settled = Resolved(<<>>)
    /\ pgCalls[3].pc = "awaiting" /\ pgCalls[3].init = "return"
    /\ pgCompiled = 1
    /\ getParserInfo(pgParser).initialized

============================================================================
